---- MODULE Spec2Model ----
(***************************************************************************)
(* Verification model of the memory-game video pipeline                    *)
(* (src/src/views/MemoryGame/processVideoToImage.ts, lines 1-632).         *)
(*                                                                         *)
(* Numbers: JavaScript numbers that are ratios are kept as exact fractions *)
(* [n |-> numerator, d |-> denominator] with d > 0 and compared by cross   *)
(* multiplication; times are integers in milliseconds.                     *)
(***************************************************************************)
EXTENDS Integers, Sequences, FiniteSets, TLC

VARIABLES
    pc,                 \* position of the run / of the pure-function specification
    frameMetrics,       \* FrameMetrics[]: sequence of [baselineRatio, motionRatio]
    activeRange,        \* result of detectActiveFrameRange, NullRange before the call
    candidates,         \* one cell's CardCandidate[] (candidate-list specification)
    lastPush,           \* argument of the latest pushCardCandidate call, NoCandidate before
    inserted,           \* history: the arguments of all calls while their frames are distinct
    frameWidth,         \* width passed to buildGridRegions (outputCanvas.width)
    frameHeight,        \* height passed to buildGridRegions (outputCanvas.height)
    cardLayoutPercent,  \* the CardLayoutPercent in force, in units of 1/LayoutUnit
    gridRegions,        \* GridCellRegion[] returned by buildGridRegions, <<>> before
    video,              \* the loaded video: [duration (ms), videoWidth, videoHeight]
    currentTime,        \* video.currentTime (ms)
    seekTarget,         \* target of the seek whose promise is pending, NoSeek if none
    decoded,            \* frames the decoder has produced so far: time -> output-size pixels
    frameCount,         \* frameCount of the run, 0 before it is computed
    progressLog,        \* the onProgress calls so far: sequence of [current, total]
    analysisBaselineData, \* analysis-size pixels of the baseline frame
    baselineData,       \* output-size pixels of the baseline frame
    previousFrameData,  \* analysis-size pixels of the previous analysed frame, <<>> for null
    frameIndex,         \* loop variable of the analysis pass
    mergeFrameIndices,  \* result of buildMergeFrameIndices
    mergeIndex,         \* loop variable of the merge pass
    resultPixels,       \* result.data, the composite
    bestCellScores,     \* Float32Array of the best score per cell
    cellCandidates,     \* CardCandidate[][], one list per cell
    previousMergePixels, \* output-size pixels of the previous merge frame, <<>> for null
    cellIndex,          \* outer loop variable of the fallback filler
    fallbackIndex,      \* inner loop variable of the fallback filler
    framePixelCache,    \* Map frameIndex -> pixels of getFramePixels
    fillWrites,         \* history: every pixel write of the fallback filler
    outcome,            \* how the promise settled: [kind, message, image]
    revokedUrls,        \* number of URL.revokeObjectURL calls
    mediaLog,           \* history: seeks issued, seeks ended and frames read, in order
    isProcessing,       \* useVideoProcessing: state isProcessing
    progress,           \* useVideoProcessing: state progress, [current, total]
    resultImage,        \* useVideoProcessing: state resultImage, NoImage for null
    errorNotices,       \* history: the ErrorNotice of every onError call, in order
    uploads,            \* number of processVideo calls so far
    previousRun,        \* history: what the previous run on the same file produced
    hasActiveShare,     \* useRecordingController: state hasActiveShare
    isConnecting,       \* useRecordingController: state isConnecting
    isRecording,        \* useRecordingController: state isRecording
    recordingSeconds,   \* useRecordingController: state recordingSeconds
    autoStopEnabled,    \* MemoryGame: state isAutoStopEnabled
    captureTrack,       \* streamRef: "none" for null, else the state of the stream's track
    recSessions,        \* the sessions created so far: [recorder, tracks, stopEvent]
    mediaRecorderRef,   \* mediaRecorderRef.current as a session number, 0 for null
    recordingStreamRef, \* recordingStreamRef.current as a session number, 0 for null
    recordedVideo,      \* recordedVideoUrl as the session of its blob, 0 for null
    runsInProgress,     \* number of processVideo calls that have not settled
    connects            \* number of getDisplayMedia calls so far

rangeVars == <<frameMetrics, activeRange>>
candVars == <<candidates, lastPush, inserted>>
gridVars == <<frameWidth, frameHeight, cardLayoutPercent, gridRegions>>
mediaVars == <<video, currentTime, seekTarget, decoded>>
analysisVars == <<analysisBaselineData, baselineData, previousFrameData, frameIndex>>
mergeVars == <<mergeFrameIndices, mergeIndex, resultPixels, bestCellScores,
               cellCandidates, previousMergePixels>>
fillVars == <<cellIndex, fallbackIndex, framePixelCache, fillWrites>>
hookVars == <<isProcessing, progress, resultImage, errorNotices, uploads, previousRun>>
runVars == <<mediaVars, frameCount, progressLog, analysisVars, mergeVars, fillVars,
             outcome, revokedUrls, mediaLog, hookVars>>
recVars == <<hasActiveShare, isConnecting, isRecording, recordingSeconds, autoStopEnabled,
             captureTrack, recSessions, mediaRecorderRef, recordingStreamRef, recordedVideo,
             runsInProgress, connects>>
recVarsButRuns == <<hasActiveShare, isConnecting, isRecording, recordingSeconds,
                    autoStopEnabled, captureTrack, recSessions, mediaRecorderRef,
                    recordingStreamRef, recordedVideo, connects>>
vars == <<pc, rangeVars, candVars, gridVars, runVars, recVars>>

----------------------------------------------------------------------------
(* Exact fractions *)

Frac(n, d) == [n |-> n, d |-> d]
FracLt(a, b) == a.n * b.d < b.n * a.d
FracLe(a, b) == a.n * b.d <= b.n * a.d
FracEq(a, b) == a.n * b.d = b.n * a.d
FracMax(a, b) == IF FracLt(a, b) THEN b ELSE a
FracMul(a, b) == [n |-> a.n * b.n, d |-> a.d * b.d]

Max(a, b) == IF a >= b THEN a ELSE b
Min(a, b) == IF a <= b THEN a ELSE b

----------------------------------------------------------------------------
(* Bounds of the model *)

MaxMetricsLen == 6      \* longest enumerated metrics sequence
MaxCandFrame == 3       \* candidate frame indices are 0..MaxCandFrame
MaxGridWidth == 12      \* enumerated frame widths are 1..MaxGridWidth
MaxGridHeight == 5      \* enumerated frame heights are 1..MaxGridHeight
MaxLongFrames == 7      \* one-pixel videos last up to MaxLongFrames frames
MaxRichFrames == 4      \* two-pixel videos last up to MaxRichFrames frames

----------------------------------------------------------------------------
(* ACTIVE_RANGE_RULES *)

minBaselineRatio == Frac(15, 1000)
maxBaselineRatio == Frac(35, 100)
minMotionRatio == Frac(5, 1000)
minActiveStreak == 2
marginFrames == 2
RelaxedMotionFactor == Frac(35, 100)
RelaxedBaselineFactor == Frac(5, 10)

CARD_CANDIDATE_LIMIT == 3

NullRange == [start |-> -1, end |-> -1]
NoCandidate == [frameIndex |-> -1, score |-> Frac(0, 1)]

\* The history of the insertions into one list: the candidates inserted so
\* far, kept for as long as their frame indices are pairwise distinct.
NoInsertions == [distinct |-> TRUE, all |-> {}]
SpoiltInsertions == [distinct |-> FALSE, all |-> {}]
InsertionsAfter(history, next) ==
    IF history.distinct /\ \A c \in history.all : c.frameIndex # next.frameIndex
    THEN [distinct |-> TRUE, all |-> history.all \cup {next}]
    ELSE SpoiltInsertions

----------------------------------------------------------------------------
(* Active range detection *)

isBaselineWithinActiveRange(baselineRatio) ==
    FracLe(minBaselineRatio, baselineRatio) /\ FracLe(baselineRatio, maxBaselineRatio)

\* The for loop of findActiveStreakRange; index is the 0-based loop index.
RECURSIVE StreakScan(_, _, _, _, _)
StreakScan(candidate, index, streak, firstActive, lastActive) ==
    IF index >= Len(candidate)
    THEN [firstActive |-> firstActive, lastActive |-> lastActive]
    ELSE IF candidate[index + 1]
         THEN IF streak + 1 >= minActiveStreak
              THEN StreakScan(candidate, index + 1, streak + 1,
                              IF firstActive = -1 THEN index - (streak + 1) + 1 ELSE firstActive,
                              index)
              ELSE StreakScan(candidate, index + 1, streak + 1, firstActive, lastActive)
         ELSE StreakScan(candidate, index + 1, 0, firstActive, lastActive)

findActiveStreakRange_NoMargin(candidate) ==
    LET scan == StreakScan(candidate, 0, 0, -1, -1)
    IN  IF scan.firstActive = -1 \/ scan.lastActive = -1
        THEN NullRange
        ELSE [start |-> scan.firstActive, end |-> scan.lastActive]

findActiveStreakRange_NoClamp(candidate) ==
    LET scan == StreakScan(candidate, 0, 0, -1, -1)
    IN  IF scan.firstActive = -1 \/ scan.lastActive = -1
        THEN NullRange
        ELSE [start |-> scan.firstActive - marginFrames,
              end |-> scan.lastActive + marginFrames]

findActiveStreakRange(candidate) ==
    LET scan == StreakScan(candidate, 0, 0, -1, -1)
    IN  IF scan.firstActive = -1 \/ scan.lastActive = -1
        THEN NullRange
        ELSE [start |-> Max(0, scan.firstActive - marginFrames),
              end |-> Min(Len(candidate) - 1, scan.lastActive + marginFrames)]

RECURSIVE MaxMotionOf(_, _, _)
MaxMotionOf(metrics, index, max) ==
    IF index > Len(metrics) THEN max
    ELSE MaxMotionOf(metrics, index + 1, FracMax(max, metrics[index].motionRatio))

strictCandidate(metrics) ==
    [i \in 1..Len(metrics) |->
        /\ isBaselineWithinActiveRange(metrics[i].baselineRatio)
        /\ FracLe(minMotionRatio, metrics[i].motionRatio)]

motionCandidate(metrics) ==
    LET maxMotionRatio == MaxMotionOf(metrics, 1, Frac(0, 1))
        fallbackMotionThreshold == FracMax(minMotionRatio, FracMul(maxMotionRatio, RelaxedMotionFactor))
        fallbackBaselineThreshold == FracMul(minBaselineRatio, RelaxedBaselineFactor)
    IN  [i \in 1..Len(metrics) |->
            /\ FracLe(fallbackMotionThreshold, metrics[i].motionRatio)
            /\ FracLe(fallbackBaselineThreshold, metrics[i].baselineRatio)]

\* Variant: the relaxed rule is tried before the strict rule.
detectActiveFrameRange_RelaxedFirst(metrics) ==
    IF Len(metrics) = 0 THEN [start |-> 0, end |-> 0]
    ELSE LET motionRange == findActiveStreakRange(motionCandidate(metrics))
         IN  IF motionRange # NullRange THEN motionRange
             ELSE LET strictRange == findActiveStreakRange(strictCandidate(metrics))
                  IN  IF strictRange # NullRange THEN strictRange
                      ELSE [start |-> 0, end |-> Len(metrics) - 1]

detectActiveFrameRange(metrics) ==
    IF Len(metrics) = 0 THEN [start |-> 0, end |-> 0]
    ELSE LET strictRange == findActiveStreakRange(strictCandidate(metrics))
         IN  IF strictRange # NullRange THEN strictRange
             ELSE LET motionRange == findActiveStreakRange(motionCandidate(metrics))
                  IN  IF motionRange # NullRange THEN motionRange
                      ELSE [start |-> 0, end |-> Len(metrics) - 1]

----------------------------------------------------------------------------
(* Candidate ranking *)

\* Index of the first entry with the given frameIndex, 0 when there is none
\* (Array.prototype.find returns the first match).
RECURSIVE FindCandidate(_, _, _)
FindCandidate(list, wanted, i) ==
    IF i > Len(list) THEN 0
    ELSE IF list[i].frameIndex = wanted THEN i
    ELSE FindCandidate(list, wanted, i + 1)

\* candidates.sort((first, second) => second.score - first.score): a stable
\* sort, descending by score. Insert e after every entry whose score is >= e's.
RECURSIVE InsertByScore(_, _)
InsertByScore(sorted, e) ==
    IF sorted = <<>> THEN <<e>>
    ELSE IF FracLt(Head(sorted).score, e.score) THEN <<e>> \o sorted
    ELSE <<Head(sorted)>> \o InsertByScore(Tail(sorted), e)

RECURSIVE SortByScore(_, _)
SortByScore(list, sorted) ==
    IF list = <<>> THEN sorted
    ELSE SortByScore(Tail(list), InsertByScore(sorted, Head(list)))

pushCardCandidate_NoDuplicateCheck(list, next) ==
    LET sorted == SortByScore(Append(list, next), <<>>)
    IN  IF Len(sorted) > CARD_CANDIDATE_LIMIT
        THEN SubSeq(sorted, 1, CARD_CANDIDATE_LIMIT)
        ELSE sorted

\* Variant: the list is cut to the limit before it is sorted.
pushCardCandidate_TruncateFirst(list, next) ==
    LET duplicate == FindCandidate(list, next.frameIndex, 1)
        pushed == IF duplicate # 0
                  THEN IF FracLt(list[duplicate].score, next.score)
                       THEN [list EXCEPT ![duplicate].score = next.score]
                       ELSE list
                  ELSE Append(list, next)
        cut == IF Len(pushed) > CARD_CANDIDATE_LIMIT
               THEN SubSeq(pushed, 1, CARD_CANDIDATE_LIMIT)
               ELSE pushed
    IN  SortByScore(cut, <<>>)

pushCardCandidate(list, next) ==
    LET duplicate == FindCandidate(list, next.frameIndex, 1)
        pushed == IF duplicate # 0
                  THEN IF FracLt(list[duplicate].score, next.score)
                       THEN [list EXCEPT ![duplicate].score = next.score]
                       ELSE list
                  ELSE Append(list, next)
        sorted == SortByScore(pushed, <<>>)
    IN  IF Len(sorted) > CARD_CANDIDATE_LIMIT
        THEN SubSeq(sorted, 1, CARD_CANDIDATE_LIMIT)
        ELSE sorted

----------------------------------------------------------------------------
(* Grid regions *)

\* Layout fractions are integers in units of 1/LayoutUnit (0.07525 = 7525).
LayoutUnit == 100 * 1000
GRID_COLS == 8
GRID_ROWS == 3

\* PROCESSING_CONFIG.cardLayoutPercent
ConfigLayout ==
    [left |-> 7525, top |-> 22950, cardWidth |-> 9200, cardHeight |-> 22425,
     gapX |-> 1625, gapY |-> 2775]

\* CARD_EVAL_INSET_RATIO = 0.12 and CARD_COPY_BUFFER_RATIO, as fractions
CARD_EVAL_INSET_RATIO == Frac(12, 100)
CARD_COPY_BUFFER_RATIO ==
    [left |-> Frac(15, 1000), right |-> Frac(15, 1000),
     top |-> Frac(40, 1000), bottom |-> Frac(20, 1000)]

\* clamp = Math.max(min, Math.min(value, max))
clamp(value, min, max) == Max(min, Min(value, max))

\* Math.floor and Math.round (round half up) of value * ratio
FloorOf(value, ratio) == (value * ratio.n) \div ratio.d
RoundOf(value, ratio) == (2 * value * ratio.n + ratio.d) \div (2 * ratio.d)

isValidCardLayoutPercent_NoTotalCheck(layout) ==
    IF layout.cardWidth <= 0 \/ layout.cardHeight <= 0 \/ layout.gapX < 0 \/ layout.gapY < 0
    THEN FALSE
    ELSE layout.left >= 0 /\ layout.top >= 0

isValidCardLayoutPercent(layout) ==
    IF layout.cardWidth <= 0 \/ layout.cardHeight <= 0 \/ layout.gapX < 0 \/ layout.gapY < 0
    THEN FALSE
    ELSE LET totalWidth == layout.left + GRID_COLS * layout.cardWidth + (GRID_COLS - 1) * layout.gapX
             totalHeight == layout.top + GRID_ROWS * layout.cardHeight + (GRID_ROWS - 1) * layout.gapY
         IN  layout.left >= 0 /\ layout.top >= 0
             /\ totalWidth <= LayoutUnit /\ totalHeight <= LayoutUnit

Rect(left, top, right, bottom) ==
    [left |-> left, top |-> top, right |-> right, bottom |-> bottom]

\* toGridCellRegion; padded = FALSE is the call without copyBufferRatio.
toGridCellRegion(baseRect, width, height, padded) ==
    LET cellWidth == Max(1, baseRect.right - baseRect.left)
        cellHeight == Max(1, baseRect.bottom - baseRect.top)
        insetX == FloorOf(cellWidth, CARD_EVAL_INSET_RATIO)
        insetY == FloorOf(cellHeight, CARD_EVAL_INSET_RATIO)
        evalLeft == clamp(baseRect.left + insetX, baseRect.left, baseRect.right - 1)
        evalRight == clamp(baseRect.right - insetX, evalLeft + 1, baseRect.right)
        evalTop == clamp(baseRect.top + insetY, baseRect.top, baseRect.bottom - 1)
        evalBottom == clamp(baseRect.bottom - insetY, evalTop + 1, baseRect.bottom)
        copyLeft == clamp(baseRect.left - RoundOf(cellWidth, CARD_COPY_BUFFER_RATIO.left),
                          0, Max(0, width - 2))
        copyRight == clamp(baseRect.right + RoundOf(cellWidth, CARD_COPY_BUFFER_RATIO.right),
                           copyLeft + 1, width)
        copyTop == clamp(baseRect.top - RoundOf(cellHeight, CARD_COPY_BUFFER_RATIO.top),
                         0, Max(0, height - 2))
        copyBottom == clamp(baseRect.bottom + RoundOf(cellHeight, CARD_COPY_BUFFER_RATIO.bottom),
                            copyTop + 1, height)
    IN  [copyRect |-> IF padded THEN Rect(copyLeft, copyTop, copyRight, copyBottom) ELSE baseRect,
         evalRect |-> Rect(evalLeft, evalTop, evalRight, evalBottom),
         evalPixelCount |-> Max(1, (evalRight - evalLeft) * (evalBottom - evalTop))]

\* xEdges[index] = Math.round((index / GRID_COLS) * width), same for yEdges
xEdges(index, width) == RoundOf(width, Frac(index, GRID_COLS))
yEdges(index, height) == RoundOf(height, Frac(index, GRID_ROWS))

uniformBaseRect(width, height, row, col) ==
    Rect(xEdges(col, width), yEdges(row, height), xEdges(col + 1, width), yEdges(row + 1, height))

\* The nested row/col loops of buildUniformGridRegions, pushing one region each.
RECURSIVE UniformLoop(_, _, _, _, _)
UniformLoop(width, height, row, col, regions) ==
    IF row >= GRID_ROWS THEN regions
    ELSE IF col >= GRID_COLS THEN UniformLoop(width, height, row + 1, 0, regions)
    ELSE UniformLoop(width, height, row, col + 1,
            Append(regions, toGridCellRegion(uniformBaseRect(width, height, row, col),
                                             width, height, FALSE)))

buildUniformGridRegions(width, height) == UniformLoop(width, height, 0, 0, <<>>)

percentBaseRect_Unclamped(layout, width, height, row, col) ==
    LET leftPercent == layout.left + col * (layout.cardWidth + layout.gapX)
        topPercent == layout.top + row * (layout.cardHeight + layout.gapY)
    IN  Rect(RoundOf(width, Frac(leftPercent, LayoutUnit)),
             RoundOf(height, Frac(topPercent, LayoutUnit)),
             RoundOf(width, Frac(leftPercent + layout.cardWidth, LayoutUnit)),
             RoundOf(height, Frac(topPercent + layout.cardHeight, LayoutUnit)))

\* left, right, top, bottom of one cell in buildGridRegions
percentBaseRect(layout, width, height, row, col) ==
    LET leftPercent == layout.left + col * (layout.cardWidth + layout.gapX)
        topPercent == layout.top + row * (layout.cardHeight + layout.gapY)
        left == clamp(RoundOf(width, Frac(leftPercent, LayoutUnit)), 0, Max(0, width - 2))
        right == clamp(RoundOf(width, Frac(leftPercent + layout.cardWidth, LayoutUnit)),
                       left + 1, width)
        top == clamp(RoundOf(height, Frac(topPercent, LayoutUnit)), 0, Max(0, height - 2))
        bottom == clamp(RoundOf(height, Frac(topPercent + layout.cardHeight, LayoutUnit)),
                        top + 1, height)
    IN  Rect(left, top, right, bottom)

\* The nested row/col loops of buildGridRegions.
RECURSIVE PercentLoop(_, _, _, _, _, _)
PercentLoop(layout, width, height, row, col, regions) ==
    IF row >= GRID_ROWS THEN regions
    ELSE IF col >= GRID_COLS THEN PercentLoop(layout, width, height, row + 1, 0, regions)
    ELSE PercentLoop(layout, width, height, row, col + 1,
            Append(regions, toGridCellRegion(percentBaseRect(layout, width, height, row, col),
                                             width, height, TRUE)))

\* buildGridRegions; the layout is PROCESSING_CONFIG.cardLayoutPercent.
buildGridRegions(layout, width, height) ==
    IF ~isValidCardLayoutPercent(layout)
    THEN buildUniformGridRegions(width, height)
    ELSE PercentLoop(layout, width, height, 0, 0, <<>>)

----------------------------------------------------------------------------
(* Merge-frame filter *)

\* Frame indices range.start..range.end, in increasing order, that satisfy keep
\* (keep is a function on 0-based frame indices).
RECURSIVE SelectFrames(_, _, _, _)
SelectFrames(keep, frameIdx, end, selected) ==
    IF frameIdx > end THEN selected
    ELSE SelectFrames(keep, frameIdx + 1, end,
                      IF keep[frameIdx] THEN Append(selected, frameIdx) ELSE selected)

RECURSIVE MaxMotionIn(_, _, _, _)
MaxMotionIn(metrics, index, end, max) ==
    IF index > end \/ index > Len(metrics) THEN max
    ELSE MaxMotionIn(metrics, index + 1, end, FracMax(max, metrics[index].motionRatio))

\* Variant: without the whole-range fallback.
buildMergeFrameIndices_NoFullRange(metrics, range) ==
    LET frames == range.start..range.end
        filtered == SelectFrames(
            [f \in frames |-> isBaselineWithinActiveRange(metrics[f + 1].baselineRatio)],
            range.start, range.end, <<>>)
        \* metrics.slice(range.start, range.end + 1).reduce(...)
        maxMotionRatio == MaxMotionIn(metrics, range.start + 1, range.end + 1, Frac(0, 1))
        motionThreshold == FracMax(minMotionRatio, FracMul(maxMotionRatio, RelaxedMotionFactor))
        baselineThreshold == FracMul(minBaselineRatio, RelaxedBaselineFactor)
        motionFallback == SelectFrames(
            [f \in frames |->
                /\ FracLe(motionThreshold, metrics[f + 1].motionRatio)
                /\ FracLe(baselineThreshold, metrics[f + 1].baselineRatio)],
            range.start, range.end, <<>>)
    IN  IF Len(filtered) > 0 THEN filtered
        ELSE motionFallback

\* Variant: the first tier also tests the motion ratio.
buildMergeFrameIndices_StrictRule(metrics, range) ==
    LET frames == range.start..range.end
        filtered == SelectFrames(
            [f \in frames |->
                /\ isBaselineWithinActiveRange(metrics[f + 1].baselineRatio)
                /\ FracLe(minMotionRatio, metrics[f + 1].motionRatio)],
            range.start, range.end, <<>>)
        \* metrics.slice(range.start, range.end + 1).reduce(...)
        maxMotionRatio == MaxMotionIn(metrics, range.start + 1, range.end + 1, Frac(0, 1))
        motionThreshold == FracMax(minMotionRatio, FracMul(maxMotionRatio, RelaxedMotionFactor))
        baselineThreshold == FracMul(minBaselineRatio, RelaxedBaselineFactor)
        motionFallback == SelectFrames(
            [f \in frames |->
                /\ FracLe(motionThreshold, metrics[f + 1].motionRatio)
                /\ FracLe(baselineThreshold, metrics[f + 1].baselineRatio)],
            range.start, range.end, <<>>)
        fullRange == SelectFrames([f \in frames |-> TRUE], range.start, range.end, <<>>)
    IN  IF Len(filtered) > 0 THEN filtered
        ELSE IF Len(motionFallback) > 0 THEN motionFallback
        ELSE fullRange

\* Variant: the motion threshold uses the maximum of the whole sequence.
buildMergeFrameIndices_WholeSequenceMax(metrics, range) ==
    LET frames == range.start..range.end
        filtered == SelectFrames(
            [f \in frames |-> isBaselineWithinActiveRange(metrics[f + 1].baselineRatio)],
            range.start, range.end, <<>>)
        maxMotionRatio == MaxMotionIn(metrics, 1, Len(metrics), Frac(0, 1))
        motionThreshold == FracMax(minMotionRatio, FracMul(maxMotionRatio, RelaxedMotionFactor))
        baselineThreshold == FracMul(minBaselineRatio, RelaxedBaselineFactor)
        motionFallback == SelectFrames(
            [f \in frames |->
                /\ FracLe(motionThreshold, metrics[f + 1].motionRatio)
                /\ FracLe(baselineThreshold, metrics[f + 1].baselineRatio)],
            range.start, range.end, <<>>)
        fullRange == SelectFrames([f \in frames |-> TRUE], range.start, range.end, <<>>)
    IN  IF Len(filtered) > 0 THEN filtered
        ELSE IF Len(motionFallback) > 0 THEN motionFallback
        ELSE fullRange

buildMergeFrameIndices(metrics, range) ==
    LET frames == range.start..range.end
        filtered == SelectFrames(
            [f \in frames |-> isBaselineWithinActiveRange(metrics[f + 1].baselineRatio)],
            range.start, range.end, <<>>)
        \* metrics.slice(range.start, range.end + 1).reduce(...)
        maxMotionRatio == MaxMotionIn(metrics, range.start + 1, range.end + 1, Frac(0, 1))
        motionThreshold == FracMax(minMotionRatio, FracMul(maxMotionRatio, RelaxedMotionFactor))
        baselineThreshold == FracMul(minBaselineRatio, RelaxedBaselineFactor)
        motionFallback == SelectFrames(
            [f \in frames |->
                /\ FracLe(motionThreshold, metrics[f + 1].motionRatio)
                /\ FracLe(baselineThreshold, metrics[f + 1].baselineRatio)],
            range.start, range.end, <<>>)
        fullRange == SelectFrames([f \in frames |-> TRUE], range.start, range.end, <<>>)
    IN  IF Len(filtered) > 0 THEN filtered
        ELSE IF Len(motionFallback) > 0 THEN motionFallback
        ELSE fullRange

----------------------------------------------------------------------------
(* Pixels and frames *)

\* A pixel is <<red, green, blue, alpha>>; a frame (ImageData.data) is the
\* row-major sequence of its pixels, so the pixel at byte offset
\* (y * width + x) * 4 is element y * width + x + 1.
Gray(level) == <<level, level, level, 255>>
Transparent == <<0, 0, 0, 0>>

Abs(x) == IF x < 0 THEN -x ELSE x

RECURSIVE SumFn(_, _)
SumFn(f, S) ==
    IF S = {} THEN 0
    ELSE LET x == CHOOSE y \in S : TRUE IN f[x] + SumFn(f, S \ {x})

getBrightnessDiff(first, second, p) ==
    Frac(Abs(first[p][1] - second[p][1]) + Abs(first[p][2] - second[p][2])
            + Abs(first[p][3] - second[p][3]), 3)

Exceeds(value, limit) == FracLt(Frac(limit, 1), value)

\* PROCESSING_CONFIG and the scorer's tuning
fps == 10
scaleDown == Frac(5, 10)
threshold == 30
progressUpdateInterval == 5
MOTION_THRESHOLD == 14
ANALYSIS_SCALE_DOWN == Frac(25, 100)
CARD_MIN_DIFF_RATIO == Frac(8, 100)
CARD_MAX_LOCAL_MOTION_RATIO == Frac(25, 100)
MotionPenaltyScale == 25
SHARPEN_STRENGTH == Frac(35, 100)
\* times in milliseconds
MsPerSecond == 1000
BASELINE_SAMPLE_OFFSET_MS == 100
SeekEpsilonMs == 1

shouldEmitProgress(completed, total) ==
    completed % progressUpdateInterval = 0 \/ completed = total

\* countFrameDiffs; previousPixels = <<>> stands for undefined.
countFrameDiffs(currentPixels, baselinePixels, baselineThreshold, previousPixels) ==
    [baselineChanged |->
        Cardinality({p \in 1..Len(currentPixels) :
            Exceeds(getBrightnessDiff(currentPixels, baselinePixels, p), baselineThreshold)}),
     motionChanged |->
        IF previousPixels = <<>> THEN 0
        ELSE Cardinality({p \in 1..Len(currentPixels) :
                Exceeds(getBrightnessDiff(currentPixels, previousPixels, p), MOTION_THRESHOLD)})]

\* Pixels (1-based indices) of a rectangle in a frame of the given width.
RectPixels(rect, width) ==
    { y * width + x + 1 : x \in rect.left..(rect.right - 1), y \in rect.top..(rect.bottom - 1) }

\* copyRectPixels: every row of rect is copied from source into target.
copyRectPixels(sourcePixels, targetPixels, imageWidth, rect) ==
    [p \in 1..Len(targetPixels) |->
        IF p \in RectPixels(rect, imageWidth) THEN sourcePixels[p] ELSE targetPixels[p]]

----------------------------------------------------------------------------
(* Float32Array storage of the running best score *)

\* A stored best score is [score, dir]: the exact score and the direction in
\* which rounding to the nearest 32-bit float moved it (-1 down, 0 exact, 1 up).
\* ScaleUp/ScaleDown bring n/d into [1, 2); MantissaRemainder produces the 23
\* fraction bits by long division and returns the last bit and the remainder.
RECURSIVE ScaleUp(_, _)
ScaleUp(n, d) == IF n >= d THEN n ELSE ScaleUp(2 * n, d)

RECURSIVE ScaleDown(_, _)
ScaleDown(n, d) == IF n < 2 * d THEN d ELSE ScaleDown(n, 2 * d)

MantissaBits == 23

RECURSIVE MantissaRemainder(_, _, _, _)
MantissaRemainder(r, d, bits, lastBit) ==
    IF bits = 0 THEN [r |-> r, lastBit |-> lastBit]
    ELSE IF 2 * r >= d THEN MantissaRemainder(2 * r - d, d, bits - 1, 1)
    ELSE MantissaRemainder(2 * r, d, bits - 1, 0)

FroundDir(score) ==
    IF score.n <= 0 THEN 0
    ELSE LET n == ScaleUp(score.n, score.d)
             d == ScaleDown(n, score.d)
             m == MantissaRemainder(n - d, d, MantissaBits, 0)
         IN  IF m.r = 0 THEN 0
             ELSE IF 2 * m.r < d THEN -1
             ELSE IF 2 * m.r > d THEN 1
             ELSE IF m.lastBit = 0 THEN -1 ELSE 1

Fround(score) == [score |-> score, dir |-> FroundDir(score)]

\* score > bestCellScores[cellIndex], the right side being a 32-bit float.
\* Distinct scores of the model differ by far more than a rounding step.
ScoreExceedsStored(score, stored) ==
    \/ FracLt(stored.score, score)
    \/ FracEq(stored.score, score) /\ stored.dir = -1

BestScoreSentinel == [score |-> Frac(-1, 1), dir |-> 0]

----------------------------------------------------------------------------
(* Inputs of the pure-function specifications *)

\* Per-frame metrics the analysis pass can produce:
\*   idle (0, 0); strict candidate (0.05, 0.01); in band without motion (0.05, 0);
\*   above the band with strong motion (0.5, 0.05); below the band (0.01, 0.01).
MetricSamples ==
    { [baselineRatio |-> Frac(0, 1),   motionRatio |-> Frac(0, 1)],
      [baselineRatio |-> Frac(1, 20),  motionRatio |-> Frac(1, 100)],
      [baselineRatio |-> Frac(1, 20),  motionRatio |-> Frac(0, 1)],
      [baselineRatio |-> Frac(1, 2),   motionRatio |-> Frac(1, 20)],
      [baselineRatio |-> Frac(1, 100), motionRatio |-> Frac(1, 100)] }

\* The 30-frame scenario: frames 10..20 are (0.05, 0.01), all others (0, 0).
ScenarioMetrics ==
    [i \in 1..30 |->
        IF i - 1 >= 10 /\ i - 1 <= 20
        THEN [baselineRatio |-> Frac(5, 100), motionRatio |-> Frac(1, 100)]
        ELSE [baselineRatio |-> Frac(0, 1), motionRatio |-> Frac(0, 1)]]

\* Samples for a recording whose strongest motion lies off the board:
\*   idle (0, 0); above the band with strong motion (0.5, 0.05) and with weak
\*   motion (0.5, 0.02); the strongest motion, hardly differing from the
\*   baseline (0, 0.1).
DriftSamples ==
    { [baselineRatio |-> Frac(0, 1),   motionRatio |-> Frac(0, 1)],
      [baselineRatio |-> Frac(1, 2),   motionRatio |-> Frac(1, 20)],
      [baselineRatio |-> Frac(1, 2),   motionRatio |-> Frac(1, 50)],
      [baselineRatio |-> Frac(0, 1),   motionRatio |-> Frac(1, 10)] }

MetricsInputs ==
    UNION { [1..n -> MetricSamples] : n \in 0..MaxMetricsLen }
    \cup UNION { [1..n -> DriftSamples] : n \in 0..MaxMetricsLen }
    \cup {ScenarioMetrics}

ScoreSamples == { Frac(0, 1), Frac(2, 5), Frac(4, 10), Frac(9, 10) }

CandidateInputs ==
    [frameIndex : 0..MaxCandFrame, score : ScoreSamples]

\* The rejected layout of the scenario: left = 0.9, cardWidth = 0.2.
ScenarioLayout == [ConfigLayout EXCEPT !.left = 90000, !.cardWidth = 20000]

LayoutInputs ==
    { ConfigLayout,
      \* occupies exactly the whole frame: 8 x 0.125 wide, 0.25 + 3 x 0.25 high
      [left |-> 0, top |-> 25000, cardWidth |-> 12500, cardHeight |-> 25000, gapX |-> 0, gapY |-> 0],
      ScenarioLayout,
      [ConfigLayout EXCEPT !.left = -1000],
      [ConfigLayout EXCEPT !.top = -1000],
      [ConfigLayout EXCEPT !.cardWidth = 0],
      [ConfigLayout EXCEPT !.cardHeight = -5000],
      [ConfigLayout EXCEPT !.gapX = -100],
      [ConfigLayout EXCEPT !.gapY = -100],
      [ConfigLayout EXCEPT !.cardHeight = 30000] }

FrameSizeInputs ==
    ((1..MaxGridWidth) \X (1..MaxGridHeight)) \cup {<<800, 300>>, <<960, 540>>}

NoLayout == [left |-> 0, top |-> 0, cardWidth |-> 0, cardHeight |-> 0, gapX |-> 0, gapY |-> 0]

GridIdle ==
    /\ frameWidth = 0
    /\ frameHeight = 0
    /\ cardLayoutPercent = NoLayout
    /\ gridRegions = <<>>

NoSeek == -1
NoVideo == [duration |-> 0, videoWidth |-> 0, videoHeight |-> 0]
Pending == [kind |-> "pending", message |-> "", image |-> <<>>]

\* useVideoProcessing: the initial values of the state
INITIAL_PROGRESS == [current |-> 0, total |-> 0]
NoImage == <<>>
NoRun == <<>>

\* useRecordingController and MemoryGame as useState and useRef leave them.
autoStopSeconds == 5
RecIdle ==
    /\ hasActiveShare = FALSE
    /\ isConnecting = FALSE
    /\ isRecording = FALSE
    /\ recordingSeconds = 0
    /\ autoStopEnabled = TRUE
    /\ captureTrack = "none"
    /\ recSessions = <<>>
    /\ mediaRecorderRef = 0
    /\ recordingStreamRef = 0
    /\ recordedVideo = 0
    /\ runsInProgress = 0
    /\ connects = 0

\* The hook as useState leaves it, before any processVideo call.
HookIdle ==
    /\ isProcessing = FALSE
    /\ progress = INITIAL_PROGRESS
    /\ resultImage = NoImage
    /\ errorNotices = <<>>
    /\ uploads = 0
    /\ previousRun = NoRun

\* The hook after the synchronous start of its first processVideo call.
HookProcessing ==
    /\ isProcessing = TRUE
    /\ progress = INITIAL_PROGRESS
    /\ resultImage = NoImage
    /\ errorNotices = <<>>
    /\ uploads = 1
    /\ previousRun = NoRun

\* The callback processVideo passes as onProgress: setProgress({current, total})
\* for the latest call, when the step has made one.
ProgressAfter(log) ==
    IF Len(log) > Len(progressLog) THEN log[Len(log)] ELSE progress

\* No run of processVideoToImage is in progress (pure-function specifications).
RunIdle ==
    /\ HookIdle
    /\ RecIdle
    /\ video = NoVideo
    /\ currentTime = 0
    /\ seekTarget = NoSeek
    /\ decoded = <<>>
    /\ frameCount = 0
    /\ progressLog = <<>>
    /\ analysisBaselineData = <<>>
    /\ baselineData = <<>>
    /\ previousFrameData = <<>>
    /\ frameIndex = 0
    /\ mergeFrameIndices = <<>>
    /\ mergeIndex = 0
    /\ resultPixels = <<>>
    /\ bestCellScores = <<>>
    /\ cellCandidates = <<>>
    /\ previousMergePixels = <<>>
    /\ cellIndex = 0
    /\ fallbackIndex = 0
    /\ framePixelCache = <<>>
    /\ fillWrites = {}
    /\ outcome = Pending
    /\ revokedUrls = 0
    /\ mediaLog = <<>>

----------------------------------------------------------------------------
(* Specification of the active-range detector (pure function) *)

InitRange ==
    /\ pc = "range_input"
    /\ frameMetrics \in MetricsInputs
    /\ activeRange = NullRange
    /\ candidates = <<>>
    /\ lastPush = NoCandidate
    /\ inserted = NoInsertions
    /\ GridIdle
    /\ RunIdle

DetectRange ==
    /\ pc = "range_input"
    /\ pc' = "range_done"
    /\ activeRange' = detectActiveFrameRange(frameMetrics)
    /\ UNCHANGED <<frameMetrics, candVars, gridVars, runVars, recVars>>

\* The merge list of the detected range (processVideoToImage passes at least
\* one frame's metrics: frameCount >= 1).
BuildMergeList ==
    /\ pc = "range_done"
    /\ Len(frameMetrics) >= 1
    /\ pc' = "merge_list_done"
    /\ mergeFrameIndices' = buildMergeFrameIndices(frameMetrics, activeRange)
    /\ UNCHANGED <<rangeVars, candVars, gridVars, mediaVars, frameCount, progressLog,
                   analysisVars, mergeIndex, resultPixels, bestCellScores, cellCandidates,
                   previousMergePixels, fillVars, outcome, revokedUrls, mediaLog, hookVars,
                   recVars>>

NextRange == DetectRange \/ BuildMergeList

SpecRange == InitRange /\ [][NextRange]_vars

----------------------------------------------------------------------------
(* Specification of one cell's candidate list *)

InitCand ==
    /\ pc = "cand"
    /\ candidates = <<>>
    /\ lastPush = NoCandidate
    /\ inserted = NoInsertions
    /\ frameMetrics = <<>>
    /\ activeRange = NullRange
    /\ GridIdle
    /\ RunIdle

PushCandidate ==
    \E next \in CandidateInputs :
        /\ candidates' = pushCardCandidate(candidates, next)
        /\ lastPush' = next
        /\ inserted' = InsertionsAfter(inserted, next)
        /\ UNCHANGED <<pc, rangeVars, gridVars, runVars, recVars>>

NextCand == PushCandidate

SpecCand == InitCand /\ [][NextCand]_vars

----------------------------------------------------------------------------
(* Specification of the grid region builder (pure function) *)

InitGrid ==
    /\ pc = "grid_input"
    /\ \E size \in FrameSizeInputs : frameWidth = size[1] /\ frameHeight = size[2]
    /\ cardLayoutPercent \in LayoutInputs
    /\ gridRegions = <<>>
    /\ frameMetrics = <<>>
    /\ activeRange = NullRange
    /\ candidates = <<>>
    /\ lastPush = NoCandidate
    /\ inserted = NoInsertions
    /\ RunIdle

BuildGrid ==
    /\ pc = "grid_input"
    /\ pc' = "grid_done"
    /\ gridRegions' = buildGridRegions(cardLayoutPercent, frameWidth, frameHeight)
    /\ UNCHANGED <<frameWidth, frameHeight, cardLayoutPercent, rangeVars, candVars, runVars, recVars>>

NextGrid == BuildGrid

SpecGrid == InitGrid /\ [][NextGrid]_vars

----------------------------------------------------------------------------
(* processVideoToImage: the video, its frames and the seek helper *)

\* The decoder's picture at a time is modelled by its output-canvas rendering;
\* the analysis canvas is the area average of that rendering (drawImage scaling).
\* Gray levels keep (r + g + b) / 3 an integer, so that the brightness
\* arithmetic of the code is exact in double precision.
\* A frame one pixel wide that is black except for the three pixels of the
\* first card row (rows 3..5 of TallHeight).
TallHeight == 14
TallFrame(a, b, c) ==
    [p \in 1..TallHeight |->
        IF p = 4 THEN Gray(a) ELSE IF p = 5 THEN Gray(b) ELSE IF p = 6 THEN Gray(c) ELSE Gray(0)]

FrameSamples(pixelCount) ==
    IF pixelCount = 1
    THEN { <<Gray(0)>>, <<Gray(36)>> }
    ELSE IF pixelCount = 2
    THEN { <<Gray(0), Gray(0)>>, <<Gray(0), Gray(40)>>,
           <<Gray(24), Gray(0)>>, <<Gray(36), Gray(0)>> }
    ELSE { TallFrame(0, 0, 0), TallFrame(60, 70, 60), TallFrame(70, 60, 60),
           TallFrame(60, 84, 60) }

OutputSize(videoSize) == Max(1, FloorOf(videoSize, scaleDown))
analysisScaleDown == IF FracLt(ANALYSIS_SCALE_DOWN, scaleDown) THEN ANALYSIS_SCALE_DOWN ELSE scaleDown
AnalysisSize(videoSize) == Max(1, FloorOf(videoSize, analysisScaleDown))

\* drawImage of a video without picture (videoWidth or videoHeight 0) draws
\* nothing: the canvas keeps its initial transparent black.
VideoFrames(v) ==
    IF v.videoWidth = 0 \/ v.videoHeight = 0
    THEN { [p \in 1..(OutputSize(v.videoWidth) * OutputSize(v.videoHeight)) |-> Transparent] }
    ELSE FrameSamples(OutputSize(v.videoWidth) * OutputSize(v.videoHeight))

\* The frames the decoder may show at the current time: the one it showed
\* before at that time, or any frame when the time is decoded for the first time.
FrameChoices ==
    IF currentTime \in DOMAIN decoded THEN {decoded[currentTime]} ELSE VideoFrames(video)

Remember(frame) == (currentTime :> frame) @@ decoded

\* Rendering of an output-size frame on the analysis canvas.
Downscale(pixels, width, height, aWidth, aHeight) ==
    [q \in 1..(aWidth * aHeight) |->
        LET ax == (q - 1) % aWidth
            ay == (q - 1) \div aWidth
            x0 == (ax * width) \div aWidth
            y0 == (ay * height) \div aHeight
            x1 == Max(x0, ((ax + 1) * width) \div aWidth - 1)
            y1 == Max(y0, ((ay + 1) * height) \div aHeight - 1)
            area == { y * width + x + 1 : x \in x0..x1, y \in y0..y1 }
            n == Cardinality(area)
            avg(c) == (2 * SumFn([p \in area |-> pixels[p][c]], area) + n) \div (2 * n)
        IN  <<avg(1), avg(2), avg(3), avg(4)>>]

AnalysisFrame(frame) ==
    Downscale(frame, frameWidth, frameHeight,
              AnalysisSize(video.videoWidth), AnalysisSize(video.videoHeight))

analysisPixelCount == AnalysisSize(video.videoWidth) * AnalysisSize(video.videoHeight)

\* Variant: without Math.max(1, ...).
FrameCountOf_Unclamped(duration) == (duration * fps) \div MsPerSecond

\* Math.max(1, Math.floor(video.duration * fps)), duration in milliseconds
FrameCountOf(duration) == Max(1, (duration * fps) \div MsPerSecond)

\* frameIndex / fps, in milliseconds
FrameTime(index) == (index * MsPerSecond) \div fps

\* seekTo: the clamped target time
SeekTargetOf(requestedTime, duration) ==
    Min(Max(requestedTime, 0), Max(duration - SeekEpsilonMs, 0))

\* seekTo: the promise is already resolved when the video is at the target
SeekIsImmediate(targetTime) == Abs(currentTime - targetTime) < SeekEpsilonMs

\* The seek left pending by seekTo(requestedTime), NoSeek when it resolved at once.
SeekCall(requestedTime) ==
    LET targetTime == SeekTargetOf(requestedTime, video.duration)
    IN  IF SeekIsImmediate(targetTime) THEN NoSeek ELSE targetTime

\* await seekTo(...): the caller resumes when no seek is pending.
SeekSettled_NoAwait == TRUE

SeekSettled == seekTarget = NoSeek

\* The history after seekTo left the seek `pending` (nothing is issued
\* when the promise resolved at once).
SeekIssued(log, pending) ==
    IF pending = NoSeek THEN log ELSE Append(log, [op |-> "seek", time |-> pending])

\* The history after drawImage / getImageData of the video at its current time.
FrameRead(log) == Append(log, [op |-> "read", time |-> currentTime])

Failure(message) == [kind |-> "error", message |-> message, image |-> <<>>]

\* Variant: the URL is revoked only at the end of the try block.
Fail_NoRevoke(message) ==
    /\ pc' = "failed"
    /\ outcome' = Failure(message)
    /\ revokedUrls' = revokedUrls
    /\ seekTarget' = NoSeek

\* A rejection or throw inside the try block: the promise rejects and the
\* finally block revokes the object URL.
Fail(message) ==
    /\ pc' = "failed"
    /\ outcome' = Failure(message)
    /\ revokedUrls' = revokedUrls + 1
    /\ seekTarget' = NoSeek

----------------------------------------------------------------------------
(* processVideoToImage: loading, baseline and analysis pass *)

\* Videos of 2x2 (one output pixel), 4x2 (two output pixels), one tall
\* video of 2 x 2*TallHeight (TallHeight output pixels in a column) and
\* videos without picture; durations in milliseconds, all finite (a video
\* whose duration is Infinity or NaN is outside the model).
VideoInputs ==
    { [duration |-> d, videoWidth |-> 2, videoHeight |-> 2] :
        d \in { k * 100 : k \in 0..MaxLongFrames } \cup {50, 250} }
    \cup { [duration |-> d, videoWidth |-> 4, videoHeight |-> 2] :
        d \in { k * 100 : k \in 1..MaxRichFrames } \cup {250} }
    \cup { [duration |-> d, videoWidth |-> size[1], videoHeight |-> size[2]] :
        d \in {0, 100, 300}, size \in { <<0, 0>>, <<0, 2>>, <<2, 0>> } }
    \cup { [duration |-> 300, videoWidth |-> 2, videoHeight |-> 2 * TallHeight] }

Init ==
    /\ pc = "load"
    /\ HookProcessing
    /\ RecIdle
    /\ video \in VideoInputs
    /\ currentTime = 0
    /\ seekTarget = NoSeek
    /\ decoded = <<>>
    /\ frameCount = 0
    /\ progressLog = <<>>
    /\ analysisBaselineData = <<>>
    /\ baselineData = <<>>
    /\ previousFrameData = <<>>
    /\ frameIndex = 0
    /\ mergeFrameIndices = <<>>
    /\ mergeIndex = 0
    /\ resultPixels = <<>>
    /\ bestCellScores = <<>>
    /\ cellCandidates = <<>>
    /\ previousMergePixels = <<>>
    /\ cellIndex = 0
    /\ fallbackIndex = 0
    /\ framePixelCache = <<>>
    /\ fillWrites = {}
    /\ outcome = Pending
    /\ revokedUrls = 0
    /\ mediaLog = <<>>
    /\ frameMetrics = <<>>
    /\ activeRange = NullRange
    /\ candidates = <<>>
    /\ lastPush = NoCandidate
    /\ inserted = NoInsertions
    /\ frameWidth = 0
    /\ frameHeight = 0
    /\ cardLayoutPercent = ConfigLayout
    /\ gridRegions = <<>>

\* "loadedmetadata": the metadata promise resolves and seekTo(0) is called.
LoadedMetadata ==
    /\ pc = "load"
    /\ pc' = "seek_start"
    /\ seekTarget' = SeekCall(0)
    /\ mediaLog' = SeekIssued(mediaLog, seekTarget')
    /\ UNCHANGED <<video, currentTime, decoded, frameCount, progressLog, analysisVars,
                   mergeVars, fillVars, outcome, revokedUrls, rangeVars, candVars, gridVars>>
    /\ UNCHANGED <<hookVars, recVars>>

\* "error" while loading the metadata.
LoadError ==
    /\ pc = "load"
    /\ Fail("Unable to load video metadata")
    /\ UNCHANGED <<mediaLog, video, currentTime, decoded, frameCount, progressLog, analysisVars,
                   mergeVars, fillVars, rangeVars, candVars, gridVars>>
    /\ UNCHANGED <<hookVars, recVars>>

\* "seeked": the pending seek ends.  Only the baseline seek prefers fastSeek,
\* which may land on a key frame instead of the target; the start of the
\* video stands for that key frame.
Seeked ==
    /\ seekTarget # NoSeek
    /\ currentTime' \in (IF pc = "baseline" THEN {seekTarget, 0} ELSE {seekTarget})
    /\ seekTarget' = NoSeek
    /\ mediaLog' = Append(mediaLog, [op |-> "seeked", time |-> currentTime'])
    /\ UNCHANGED <<pc, video, decoded, frameCount, progressLog, analysisVars,
                   mergeVars, fillVars, outcome, revokedUrls, rangeVars, candVars, gridVars>>
    /\ UNCHANGED <<hookVars, recVars>>

\* Variant: the first failed seek is issued again.
SeekError_Retry ==
    /\ seekTarget # NoSeek
    /\ IF \A i \in 1..Len(mediaLog) : mediaLog[i].op # "error"
       THEN /\ mediaLog' = mediaLog \o << [op |-> "error", time |-> seekTarget],
                                          [op |-> "seek", time |-> seekTarget] >>
            /\ UNCHANGED <<pc, seekTarget, outcome, revokedUrls>>
       ELSE /\ Fail("Unable to seek video frame")
            /\ mediaLog' = Append(mediaLog, [op |-> "error", time |-> seekTarget])
    /\ UNCHANGED <<video, currentTime, decoded, frameCount, progressLog, analysisVars,
                   mergeVars, fillVars, rangeVars, candVars, gridVars>>
    /\ UNCHANGED <<hookVars, recVars>>

\* "error" while a seek is pending.
SeekError ==
    /\ seekTarget # NoSeek
    /\ Fail("Unable to seek video frame")
    /\ mediaLog' = Append(mediaLog, [op |-> "error", time |-> seekTarget])
    /\ UNCHANGED <<video, currentTime, decoded, frameCount, progressLog, analysisVars,
                   mergeVars, fillVars, rangeVars, candVars, gridVars>>
    /\ UNCHANGED <<hookVars, recVars>>

\* getContext("2d") returns null for the output or the analysis canvas.
CanvasUnavailable ==
    /\ pc = "seek_start"
    /\ SeekSettled
    /\ Fail("Canvas 2D context is not available")
    /\ UNCHANGED <<mediaLog, video, currentTime, decoded, frameCount, progressLog, analysisVars,
                   mergeVars, fillVars, rangeVars, candVars, gridVars>>
    /\ UNCHANGED <<hookVars, recVars>>

\* Canvas sizes, frameCount, the two start ticks and the baseline seek.
StartRun ==
    /\ pc = "seek_start"
    /\ SeekSettled
    /\ frameWidth' = OutputSize(video.videoWidth)
    /\ frameHeight' = OutputSize(video.videoHeight)
    /\ frameCount' = FrameCountOf(video.duration)
    /\ progressLog' = progressLog \o
            << [current |-> 0, total |-> 2 * frameCount'],
               [current |-> 1, total |-> 2 * frameCount'] >>
    /\ seekTarget' = SeekCall(video.duration - BASELINE_SAMPLE_OFFSET_MS)
    /\ pc' = "baseline"
    /\ mediaLog' = SeekIssued(mediaLog, seekTarget')
    /\ UNCHANGED <<video, currentTime, decoded, analysisVars, mergeVars, fillVars,
                   outcome, revokedUrls, rangeVars, candVars, cardLayoutPercent, gridRegions>>
    /\ progress' = ProgressAfter(progressLog')
    /\ UNCHANGED <<isProcessing, resultImage, errorNotices, uploads, previousRun, recVars>>

\* The baseline frame is drawn on both canvases; the analysis loop starts.
CaptureBaseline ==
    /\ pc = "baseline"
    /\ SeekSettled
    /\ \E frame \in FrameChoices :
        /\ decoded' = Remember(frame)
        /\ analysisBaselineData' = AnalysisFrame(frame)
        /\ baselineData' = frame
    /\ previousFrameData' = <<>>
    /\ frameIndex' = 0
    /\ frameMetrics' = <<>>
    \* frameCount >= 1: the body of the analysis loop runs at least once
    /\ seekTarget' = SeekCall(FrameTime(0))
    /\ pc' = "analyze"
    /\ mediaLog' = SeekIssued(FrameRead(mediaLog), seekTarget')
    /\ UNCHANGED <<video, currentTime, frameCount, progressLog, mergeVars, fillVars,
                   outcome, revokedUrls, activeRange, candVars, gridVars>>
    /\ UNCHANGED <<hookVars, recVars>>

\* Variant: the score buffer of the previous run is used again without fill(-1).
newBestCellScores_Reused(length) ==
    IF previousRun # NoRun /\ Len(previousRun.bestCellScores) = length
    THEN previousRun.bestCellScores
    ELSE [c \in 1..length |-> BestScoreSentinel]

\* new Float32Array(gridRegions.length).fill(-1)
newBestCellScores(length) == [c \in 1..length |-> BestScoreSentinel]

\* One iteration of the analysis loop; after the last one the active range,
\* the merge frames and the merge state are set up.
AnalyzeFrame ==
    /\ pc = "analyze"
    /\ SeekSettled
    /\ \E frame \in FrameChoices :
        LET currentPixels == AnalysisFrame(frame)
            diffs == countFrameDiffs(currentPixels, analysisBaselineData, threshold,
                                     previousFrameData)
            metrics == Append(frameMetrics,
                [baselineRatio |-> Frac(diffs.baselineChanged, analysisPixelCount),
                 motionRatio |-> IF previousFrameData # <<>>
                                 THEN Frac(diffs.motionChanged, analysisPixelCount)
                                 ELSE Frac(0, 1)])
            analyzedFrames == frameIndex + 1
            range == detectActiveFrameRange(metrics)
            mergeFrames == buildMergeFrameIndices(metrics, range)
            regions == buildGridRegions(cardLayoutPercent, frameWidth, frameHeight)
        IN  /\ decoded' = Remember(frame)
            /\ frameMetrics' = metrics
            /\ previousFrameData' = currentPixels
            /\ progressLog' =
                IF shouldEmitProgress(analyzedFrames, frameCount)
                THEN Append(progressLog, [current |-> analyzedFrames, total |-> 2 * frameCount])
                ELSE progressLog
            /\ IF analyzedFrames < frameCount
               THEN /\ frameIndex' = analyzedFrames
                    /\ seekTarget' = SeekCall(FrameTime(analyzedFrames))
                    /\ UNCHANGED <<pc, activeRange, mergeVars, gridRegions>>
               ELSE /\ frameIndex' = analyzedFrames
                    /\ activeRange' = range
                    /\ mergeFrameIndices' = mergeFrames
                    /\ resultPixels' = baselineData
                    /\ gridRegions' = regions
                    /\ bestCellScores' = newBestCellScores(Len(regions))
                    /\ cellCandidates' = [c \in 1..Len(regions) |-> <<>>]
                    /\ previousMergePixels' = <<>>
                    /\ mergeIndex' = 0
                    /\ IF Len(mergeFrames) > 0
                       THEN /\ pc' = "merge"
                            /\ seekTarget' = SeekCall(FrameTime(mergeFrames[1]))
                       ELSE /\ pc' = "fill"
                            /\ seekTarget' = NoSeek
    /\ mediaLog' = SeekIssued(FrameRead(mediaLog), seekTarget')
    /\ UNCHANGED <<video, currentTime, frameCount, analysisBaselineData, baselineData,
                   fillVars, outcome, revokedUrls, candVars, frameWidth, frameHeight,
                   cardLayoutPercent>>
    /\ progress' = ProgressAfter(progressLog')
    /\ UNCHANGED <<isProcessing, resultImage, errorNotices, uploads, previousRun, recVars>>

----------------------------------------------------------------------------
(* processVideoToImage: merge pass *)

\* Three times the brightness of a pixel
BrightnessSum(pixels, p) == pixels[p][1] + pixels[p][2] + pixels[p][3]

\* The statistics of one cell in one merge frame: whether the frame is
\* accepted for the cell and, when it is, its score; previousPixels = <<>>
\* stands for previousMergePixels = null.  With b = sum / 3 the
\* variance sum(b^2)/N - (sum(b)/N)^2 is (N * sum(s^2) - sum(s)^2) / (9 * N^2).
scoreCell(currentPixels, previousPixels, region, mergeFrame) ==
    LET evalPixels == RectPixels(region.evalRect, frameWidth)
        evalPixelCount == region.evalPixelCount
        changedPixels == Cardinality({p \in evalPixels :
            Exceeds(getBrightnessDiff(currentPixels, baselineData, p), threshold)})
        localMotionPixels ==
            IF previousPixels = <<>> THEN 0
            ELSE Cardinality({p \in evalPixels :
                Exceeds(getBrightnessDiff(currentPixels, previousPixels, p),
                        MOTION_THRESHOLD)})
        brightnessSum == SumFn([p \in evalPixels |-> BrightnessSum(currentPixels, p)], evalPixels)
        brightnessSqSum ==
            SumFn([p \in evalPixels |->
                    BrightnessSum(currentPixels, p) * BrightnessSum(currentPixels, p)], evalPixels)
        changedRatio == Frac(changedPixels, evalPixelCount)
        localMotionRatio ==
            IF previousPixels # <<>>
            THEN Frac(localMotionPixels, evalPixelCount)
            ELSE frameMetrics[mergeFrame + 1].motionRatio
        variance == Max(0, evalPixelCount * brightnessSqSum - brightnessSum * brightnessSum)
    IN  [accepted |-> /\ ~FracLt(changedRatio, CARD_MIN_DIFF_RATIO)
                      /\ ~FracLt(CARD_MAX_LOCAL_MOTION_RATIO, localMotionRatio),
         score |-> Frac(changedPixels * variance * localMotionRatio.d,
                        9 * evalPixelCount * evalPixelCount * evalPixelCount
                          * (localMotionRatio.d + MotionPenaltyScale * localMotionRatio.n))]

\* The loop over the cells for one merge frame.  The body for a cell reads
\* and writes only that cell's best score and candidate list, and it copies
\* into the composite from the one current frame, so the loop's result is
\* given cell by cell and pixel by pixel.
MergeCells(currentPixels, mergeFrame) ==
    LET cells == 1..Len(gridRegions)
        stats == [cell \in cells |->
                    scoreCell(currentPixels, previousMergePixels, gridRegions[cell], mergeFrame)]
        better == [cell \in cells |->
                    stats[cell].accepted
                    /\ ScoreExceedsStored(stats[cell].score, bestCellScores[cell])]
        copying(p) == { cell \in cells :
                          better[cell] /\ p \in RectPixels(gridRegions[cell].copyRect, frameWidth) }
    IN  [result |-> [p \in 1..Len(resultPixels) |->
                        IF copying(p) = {} THEN resultPixels[p]
                        ELSE copyRectPixels(currentPixels, resultPixels, frameWidth,
                                gridRegions[CHOOSE cell \in copying(p) : TRUE].copyRect)[p]],
         best |-> [cell \in cells |->
                        IF better[cell] THEN Fround(stats[cell].score)
                        ELSE bestCellScores[cell]],
         cands |-> [cell \in cells |->
                        IF stats[cell].accepted
                        THEN pushCardCandidate(cellCandidates[cell],
                                [frameIndex |-> mergeFrame, score |-> stats[cell].score])
                        ELSE cellCandidates[cell]]]

\* Variant: the merge progress is scaled by the total instead of frameCount.
mergeProgressFrames_OfTotal(activeProgress, mergeFrameCount) ==
    Max(1, RoundOf(2 * frameCount, Frac(activeProgress, mergeFrameCount)))

\* Variant: the frames that remain instead of the frames that are done.
mergeProgressFrames_Remaining(activeProgress, mergeFrameCount) ==
    Max(1, RoundOf(frameCount, Frac(mergeFrameCount - activeProgress, mergeFrameCount)))

\* Math.max(1, Math.round((activeProgress / mergeFrameCount) * frameCount))
mergeProgressFrames(activeProgress, mergeFrameCount) ==
    Max(1, RoundOf(frameCount, Frac(activeProgress, mergeFrameCount)))

\* One iteration of the merge loop.
MergeFrame ==
    /\ pc = "merge"
    /\ SeekSettled
    /\ \E currentPixels \in FrameChoices :
        LET mergeFrame == mergeFrameIndices[mergeIndex + 1]
            mergeFrameCount == Len(mergeFrameIndices)
            merged == MergeCells(currentPixels, mergeFrame)
            activeProgress == mergeIndex + 1
        IN  /\ decoded' = Remember(currentPixels)
            /\ resultPixels' = merged.result
            /\ bestCellScores' = merged.best
            /\ cellCandidates' = merged.cands
            /\ previousMergePixels' = currentPixels
            /\ mergeIndex' = activeProgress
            /\ progressLog' =
                IF shouldEmitProgress(activeProgress, mergeFrameCount)
                THEN Append(progressLog,
                        [current |-> frameCount
                                     + mergeProgressFrames(activeProgress, mergeFrameCount),
                         total |-> 2 * frameCount])
                ELSE progressLog
            /\ IF activeProgress < mergeFrameCount
               THEN /\ seekTarget' = SeekCall(FrameTime(mergeFrameIndices[activeProgress + 1]))
                    /\ UNCHANGED <<pc, cellIndex, fallbackIndex>>
               ELSE /\ pc' = "fill"
                    /\ seekTarget' = NoSeek
                    /\ cellIndex' = 0
                    /\ fallbackIndex' = 1
    /\ mediaLog' = SeekIssued(FrameRead(mediaLog), seekTarget')
    /\ UNCHANGED <<video, currentTime, frameCount, analysisVars, mergeFrameIndices,
                   framePixelCache, fillWrites, outcome, revokedUrls, rangeVars, candVars,
                   gridVars>>
    /\ progress' = ProgressAfter(progressLog')
    /\ UNCHANGED <<isProcessing, resultImage, errorNotices, uploads, previousRun, recVars>>

----------------------------------------------------------------------------
(* processVideoToImage: fallback filler, sharpening and the result *)

\* Variant: the test of the composite pixel is missing.
fillerWrites_NoResolvedCheck(result, fallbackPixels, p) ==
    Exceeds(getBrightnessDiff(fallbackPixels, baselineData, p), threshold)

\* Variant: the test of the fallback pixel is missing.
fillerWrites_NoFallbackCheck(result, fallbackPixels, p) ==
    ~Exceeds(getBrightnessDiff(result, baselineData, p), threshold)

\* The two tests of the filler for one pixel: the composite pixel is still
\* within the threshold of the baseline and the fallback pixel is not.
fillerWrites(result, fallbackPixels, p) ==
    /\ ~Exceeds(getBrightnessDiff(result, baselineData, p), threshold)
    /\ Exceeds(getBrightnessDiff(fallbackPixels, baselineData, p), threshold)

\* The filler loops from the position s = [cellIndex, fallbackIndex, result,
\* cache, writes, log, seek] up to the first seek that does not resolve at once
\* (s.seek is its target) or to the end of the loops (s.cellIndex is the
\* number of cells).  A frame that getFramePixels captures without a pending
\* seek is the frame the decoder shows at the current time.
RECURSIVE FillRun(_)
FillRun(s) ==
    IF s.cellIndex >= Len(gridRegions) THEN s
    ELSE LET cellCands == cellCandidates[s.cellIndex + 1]
         IN  IF Len(cellCands) < 2 \/ s.fallbackIndex >= Len(cellCands)
             THEN FillRun([s EXCEPT !.cellIndex = @ + 1, !.fallbackIndex = 1])
             ELSE LET fallbackFrame == cellCands[s.fallbackIndex + 1].frameIndex
                      cached == fallbackFrame \in DOMAIN s.cache
                      pending == SeekCall(FrameTime(fallbackFrame))
                  IN  IF ~cached /\ pending # NoSeek
                      THEN [s EXCEPT !.seek = pending]
                      ELSE LET fallbackPixels ==
                                   IF cached THEN s.cache[fallbackFrame]
                                   ELSE decoded[currentTime]
                               copyPixels ==
                                   RectPixels(gridRegions[s.cellIndex + 1].copyRect, frameWidth)
                               written == { p \in copyPixels :
                                               fillerWrites(s.result, fallbackPixels, p) }
                               filled(p) == << fallbackPixels[p][1], fallbackPixels[p][2],
                                               fallbackPixels[p][3], 255 >>
                           IN  FillRun([s EXCEPT
                                   !.fallbackIndex = @ + 1,
                                   !.cache = (fallbackFrame :> fallbackPixels) @@ @,
                                   !.log = IF cached THEN @ ELSE FrameRead(@),
                                   !.result = [p \in 1..Len(s.result) |->
                                                  IF p \in written THEN filled(p)
                                                  ELSE s.result[p]],
                                   !.writes = @ \cup
                                       { [cell |-> s.cellIndex, frame |-> fallbackFrame,
                                          pixel |-> p, before |-> s.result[p],
                                          after |-> filled(p)] : p \in written }])

\* applySharpen: the 5-point kernel on the interior pixels, channels 0..2;
\* Math.round is floor(value + 1/2).
applySharpen(pixels, width, height, strength) ==
    IF strength.n <= 0 \/ width < 3 \/ height < 3 THEN pixels
    ELSE [p \in 1..Len(pixels) |->
            LET x == (p - 1) % width
                y == (p - 1) \div width
                sharpened(c) ==
                    LET neighbors == pixels[p - 1][c] + pixels[p + 1][c]
                                     + pixels[p - width][c] + pixels[p + width][c]
                        scaled == pixels[p][c] * (strength.d + 4 * strength.n)
                                  - neighbors * strength.n
                    IN  clamp((2 * scaled + strength.d) \div (2 * strength.d), 0, 255)
            IN  IF x >= 1 /\ x < width - 1 /\ y >= 1 /\ y < height - 1
                THEN <<sharpened(1), sharpened(2), sharpened(3), pixels[p][4]>>
                ELSE pixels[p]]

\* toDataURL("image/png") of the output canvas: the image is its size and pixels.
Image(pixels, width, height) ==
    [kind |-> "image", message |-> "",
     image |-> [type |-> "image/png", width |-> width, height |-> height, pixels |-> pixels]]

\* The filler runs up to its next pending seek, or to its end: then the final
\* tick is sent, the composite sharpened and encoded, and the URL revoked.
FillStep ==
    /\ pc = "fill"
    /\ SeekSettled
    /\ LET s == FillRun([cellIndex |-> cellIndex, fallbackIndex |-> fallbackIndex,
                         result |-> resultPixels, cache |-> framePixelCache,
                         writes |-> fillWrites, log |-> mediaLog, seek |-> NoSeek])
       IN  /\ cellIndex' = s.cellIndex
           /\ fallbackIndex' = s.fallbackIndex
           /\ resultPixels' = s.result
           /\ framePixelCache' = s.cache
           /\ fillWrites' = s.writes
           /\ seekTarget' = s.seek
           /\ mediaLog' = SeekIssued(s.log, s.seek)
           /\ IF s.seek # NoSeek
              THEN UNCHANGED <<pc, progressLog, outcome, revokedUrls>>
              ELSE /\ pc' = "done"
                   /\ progressLog' = Append(progressLog,
                        [current |-> 2 * frameCount, total |-> 2 * frameCount])
                   /\ outcome' = Image(applySharpen(s.result, frameWidth, frameHeight,
                                                    SHARPEN_STRENGTH),
                                       frameWidth, frameHeight)
                   /\ revokedUrls' = revokedUrls + 1
    /\ UNCHANGED <<video, currentTime, decoded, frameCount, analysisVars, mergeFrameIndices,
                   mergeIndex, bestCellScores, cellCandidates, previousMergePixels,
                   rangeVars, candVars, gridVars>>
    /\ progress' = ProgressAfter(progressLog')
    /\ UNCHANGED <<isProcessing, resultImage, errorNotices, uploads, previousRun, recVars>>

Next ==
    \/ LoadedMetadata
    \/ LoadError
    \/ Seeked
    \/ SeekError
    \/ CanvasUnavailable
    \/ StartRun
    \/ CaptureBaseline
    \/ AnalyzeFrame
    \/ MergeFrame
    \/ FillStep

Spec == Init /\ [][Next]_vars

----------------------------------------------------------------------------
(* useVideoProcessing and the result panel around processVideoToImage *)

MaxUploads == 2

\* The files offered to the file input: their metadata; the frames of a file
\* are chosen when they are first decoded.
UploadInputs ==
    { [duration |-> d, videoWidth |-> 2, videoHeight |-> 2] : d \in {0, 200} }
    \cup { [duration |-> 200, videoWidth |-> 4, videoHeight |-> 2] }

\* Variant: every rejection is reported as an unknown error.
getErrorMessage_Unknown(error) == "Unknown error"

\* getErrorMessage: the message of an Error, "Unknown error" for another value
getErrorMessage(error) ==
    IF error.kind = "error" THEN error.message ELSE "Unknown error"

ErrorNotice(description) ==
    [title |-> "Video Processing Failed", description |-> description]

\* The frames the run has read, in order (mediaLog with the decoder's frames).
ReadFrames(log, frames) ==
    LET reads == SelectSeq(log, LAMBDA entry : entry.op = "read")
    IN  [i \in 1..Len(reads) |-> frames[reads[i].time]]

\* What a completed run has produced.
RunSnapshot ==
    [frames |-> ReadFrames(mediaLog, decoded),
     progressLog |-> progressLog,
     activeRange |-> activeRange,
     mergeFrameIndices |-> mergeFrameIndices,
     cellCandidates |-> cellCandidates,
     bestCellScores |-> bestCellScores,
     image |-> outcome.image]

\* The start of processVideoToImage(blob): a new video element, a new object
\* URL, and no local of the run allocated yet.  frames is what the decoder
\* has already produced of this file.
NewRun(file, frames) ==
    /\ pc' = "load"
    /\ video' = file
    /\ currentTime' = 0
    /\ seekTarget' = NoSeek
    /\ decoded' = frames
    /\ frameCount' = 0
    /\ progressLog' = <<>>
    /\ analysisBaselineData' = <<>>
    /\ baselineData' = <<>>
    /\ previousFrameData' = <<>>
    /\ frameIndex' = 0
    /\ mergeFrameIndices' = <<>>
    /\ mergeIndex' = 0
    /\ resultPixels' = <<>>
    /\ bestCellScores' = <<>>
    /\ cellCandidates' = <<>>
    /\ previousMergePixels' = <<>>
    /\ cellIndex' = 0
    /\ fallbackIndex' = 0
    /\ framePixelCache' = <<>>
    /\ fillWrites' = {}
    /\ outcome' = Pending
    /\ revokedUrls' = 0
    /\ mediaLog' = <<>>
    /\ frameMetrics' = <<>>
    /\ activeRange' = NullRange
    /\ frameWidth' = 0
    /\ frameHeight' = 0
    /\ gridRegions' = <<>>
    /\ UNCHANGED <<candVars, cardLayoutPercent>>

InitUI ==
    /\ pc = "idle"
    /\ RunIdle
    /\ frameMetrics = <<>>
    /\ activeRange = NullRange
    /\ candidates = <<>>
    /\ lastPush = NoCandidate
    /\ inserted = NoInsertions
    /\ frameWidth = 0
    /\ frameHeight = 0
    /\ cardLayoutPercent = ConfigLayout
    /\ gridRegions = <<>>

\* handleUpload with a file: processVideo up to its await.  The upload button
\* is disabled while isProcessing.  The file is a new one, or the file of the
\* completed run selected again (handleUpload clears the input's value to
\* allow that); the decoder then produces the same frames.
ProcessVideo ==
    /\ ~isProcessing
    /\ uploads < MaxUploads
    /\ \/ /\ \E file \in UploadInputs : NewRun(file, <<>>)
          /\ previousRun' = NoRun
       \/ /\ pc = "settled"
          /\ outcome.kind = "image"
          /\ NewRun(video, decoded)
          /\ previousRun' = RunSnapshot
    /\ isProcessing' = TRUE
    /\ progress' = INITIAL_PROGRESS
    /\ resultImage' = NoImage
    /\ uploads' = uploads + 1
    /\ UNCHANGED <<errorNotices, recVars>>

\* processVideo after its await, the promise fulfilled: setResultImage(result),
\* then finally setIsProcessing(false).
Resolved ==
    /\ pc = "done"
    /\ pc' = "settled"
    /\ resultImage' = outcome.image
    /\ isProcessing' = FALSE
    /\ UNCHANGED <<progress, errorNotices, uploads, previousRun, rangeVars, candVars, gridVars,
                   mediaVars, frameCount, progressLog, analysisVars, mergeVars, fillVars,
                   outcome, revokedUrls, mediaLog, recVars>>

\* processVideo after its await, the promise rejected: onError with the
\* notice, then finally setIsProcessing(false).
Rejected ==
    /\ pc = "failed"
    /\ pc' = "settled"
    /\ errorNotices' = Append(errorNotices, ErrorNotice(getErrorMessage(outcome)))
    /\ isProcessing' = FALSE
    /\ UNCHANGED <<progress, resultImage, uploads, previousRun, rangeVars, candVars, gridVars,
                   mediaVars, frameCount, progressLog, analysisVars, mergeVars, fillVars,
                   outcome, revokedUrls, mediaLog, recVars>>

\* Variant: clearResult leaves the progress as it is.
ClearResult_KeepProgress ==
    /\ resultImage # NoImage
    /\ resultImage' = NoImage
    /\ UNCHANGED <<pc, progress, isProcessing, errorNotices, uploads, previousRun, rangeVars,
                   candVars, gridVars, mediaVars, frameCount, progressLog, analysisVars,
                   mergeVars, fillVars, outcome, revokedUrls, mediaLog, recVars>>

\* The Clear button, rendered while resultImage is set: clearResult.
ClearResult ==
    /\ resultImage # NoImage
    /\ resultImage' = NoImage
    /\ progress' = INITIAL_PROGRESS
    /\ UNCHANGED <<pc, isProcessing, errorNotices, uploads, previousRun, rangeVars,
                   candVars, gridVars, mediaVars, frameCount, progressLog, analysisVars,
                   mergeVars, fillVars, outcome, revokedUrls, mediaLog, recVars>>

\* The result panel shows the image while resultImage is set; its src is
\* resultImage.
ResultImageVisible == resultImage # NoImage

IsPngDataUrl(src) == src # NoImage /\ src.type = "image/png"

NextUI ==
    \/ ProcessVideo
    \/ LoadedMetadata
    \/ LoadError
    \/ Seeked
    \/ SeekError
    \/ CanvasUnavailable
    \/ StartRun
    \/ CaptureBaseline
    \/ AnalyzeFrame
    \/ MergeFrame
    \/ FillStep
    \/ Resolved
    \/ Rejected
    \/ ClearResult

SpecUI == InitUI /\ [][NextUI]_vars

\* The browser delivers the pending media event and runs the continuations of
\* settled promises; uploading and clearing are up to the user.  The weak
\* fairness of the two loop bodies is written with their enabling condition
\* (the loop is at its await and the seek has ended) in place of ENABLED.
FairSpecUI ==
    /\ SpecUI
    /\ WF_vars(LoadedMetadata \/ LoadError)
    /\ WF_vars(Seeked \/ SeekError)
    /\ WF_vars(StartRun \/ CanvasUnavailable)
    /\ WF_vars(CaptureBaseline)
    /\ []<>~(pc = "analyze" /\ SeekSettled) \/ []<><<AnalyzeFrame>>_vars
    /\ []<>~(pc = "merge" /\ SeekSettled) \/ []<><<MergeFrame>>_vars
    /\ WF_vars(FillStep)
    /\ WF_vars(Resolved)
    /\ WF_vars(Rejected)

----------------------------------------------------------------------------
(* useRecordingController, createMediaRecorderSession and the buttons *)

MaxSessions == 2        \* recording sessions created in a run of the page
MaxSeconds == 6         \* recordingSeconds is counted up to MaxSeconds
MaxConnects == 1        \* getDisplayMedia calls in a run of the page
MaxNotices == 2         \* error notices after which the environment raises no error

\* A session returned by createMediaRecorderSession and started: the
\* recorder's state, the cloned track of its recording stream, and the
\* recorder's stop event ("queued" from the stop to the call of onstop).
NewSession == [recorder |-> "recording", tracks |-> "live", stopEvent |-> "none"]

\* The state and refs that the controller's callbacks read and write.
Controller ==
    [isRecording |-> isRecording, recordingSeconds |-> recordingSeconds,
     hasActiveShare |-> hasActiveShare, captureTrack |-> captureTrack,
     recSessions |-> recSessions, mediaRecorderRef |-> mediaRecorderRef,
     recordingStreamRef |-> recordingStreamRef]

SetController(c) ==
    /\ isRecording' = c.isRecording
    /\ recordingSeconds' = c.recordingSeconds
    /\ hasActiveShare' = c.hasActiveShare
    /\ captureTrack' = c.captureTrack
    /\ recSessions' = c.recSessions
    /\ mediaRecorderRef' = c.mediaRecorderRef
    /\ recordingStreamRef' = c.recordingStreamRef

\* Variant: the tracks are stopped and the refs cleared only when the refs
\* still belong to the session whose stop is handled.
stopRecordingStream_OwnSession(c, session) ==
    IF c.recordingStreamRef # session THEN c
    ELSE [c EXCEPT !.recSessions[c.recordingStreamRef].tracks = "ended",
                   !.recordingStreamRef = 0,
                   !.mediaRecorderRef = IF @ = session THEN 0 ELSE @]

\* stopRecordingStream: the tracks of recordingStreamRef.current are stopped
\* and both refs cleared; session is the session whose onStop calls it (0 for
\* another caller), which the code does not look at.
stopRecordingStream(c, session) ==
    IF c.recordingStreamRef = 0 THEN c
    ELSE [c EXCEPT !.recSessions[c.recordingStreamRef].tracks = "ended",
                   !.recordingStreamRef = 0,
                   !.mediaRecorderRef = 0]

\* Variant: setIsRecording(false) also when there is no recorder to stop.
stopRecorder_AlwaysSync(c, syncUiState) ==
    IF c.mediaRecorderRef = 0 \/ c.recSessions[c.mediaRecorderRef].recorder # "recording"
    THEN [c EXCEPT !.isRecording = IF syncUiState THEN FALSE ELSE @]
    ELSE [c EXCEPT !.recSessions[c.mediaRecorderRef].recorder = "inactive",
                   !.recSessions[c.mediaRecorderRef].stopEvent = "queued",
                   !.isRecording = IF syncUiState THEN FALSE ELSE @]

\* stopRecorder: nothing unless mediaRecorderRef.current is recording; else
\* requestData(), stop() (the recorder is inactive at once, its stop event is
\* queued) and, with syncUiState, setIsRecording(false).
stopRecorder(c, syncUiState) ==
    IF c.mediaRecorderRef = 0 \/ c.recSessions[c.mediaRecorderRef].recorder # "recording"
    THEN c
    ELSE [c EXCEPT !.recSessions[c.mediaRecorderRef].recorder = "inactive",
                   !.recSessions[c.mediaRecorderRef].stopEvent = "queued",
                   !.isRecording = IF syncUiState THEN FALSE ELSE @]

stopRecording(c) == stopRecorder(c, TRUE)

\* clearShareState (the preview is not modelled)
clearShareState(c) == [c EXCEPT !.hasActiveShare = FALSE, !.recordingSeconds = 0]

\* stopSharing: track.stop() fires no ended event
stopSharing(c) ==
    IF c.captureTrack = "none" THEN c
    ELSE clearShareState([c EXCEPT !.captureTrack = "none"])

\* Variant: the effect stops only after the limit has been passed.
AutoStopEffect_Late(c, enabled) ==
    IF ~c.isRecording \/ ~enabled \/ c.recordingSeconds <= autoStopSeconds THEN c
    ELSE stopRecording(c)

\* The auto-stop effect, run after a render in which one of its dependencies
\* has changed.
AutoStopEffect(c, enabled) ==
    IF ~c.isRecording \/ ~enabled \/ c.recordingSeconds < autoStopSeconds THEN c
    ELSE stopRecording(c)

RecNotice(title, description) == [title |-> title, description |-> description]

hookRecVars == <<progress, resultImage, isProcessing, uploads, runsInProgress>>
otherVars == <<pc, rangeVars, candVars, gridVars, mediaVars, frameCount, progressLog,
               analysisVars, mergeVars, fillVars, outcome, revokedUrls, mediaLog, previousRun>>

\* processVideo up to its await; the run of processVideoToImage is taken as a
\* whole here (it settles in RunSettles).
BeginProcessVideo ==
    /\ isProcessing' = TRUE
    /\ progress' = INITIAL_PROGRESS
    /\ resultImage' = NoImage
    /\ runsInProgress' = runsInProgress + 1

\* The image a run resolves with.
RecordedImage == [type |-> "image/png", width |-> 1, height |-> 1, pixels |-> <<Gray(0)>>]

InitRec ==
    /\ pc = "page"
    /\ RunIdle
    /\ frameMetrics = <<>>
    /\ activeRange = NullRange
    /\ candidates = <<>>
    /\ lastPush = NoCandidate
    /\ inserted = NoInsertions
    /\ GridIdle

\* Connect Game Window (toggleShareConnection without a share): connectShare
\* up to the await of getDisplayMedia.  The button is pressed when no stream
\* is held (a connection made while the ended listener of the previous stream
\* is still to run is outside the model).
ConnectShare ==
    /\ ~hasActiveShare /\ ~isProcessing /\ ~isRecording /\ ~isConnecting
    /\ captureTrack = "none"
    /\ connects < MaxConnects
    /\ isConnecting' = TRUE
    /\ connects' = connects + 1
    /\ UNCHANGED <<hasActiveShare, isRecording, recordingSeconds, autoStopEnabled, captureTrack,
                   recSessions, mediaRecorderRef, recordingStreamRef, recordedVideo,
                   errorNotices, hookRecVars, otherVars>>

\* getDisplayMedia fulfilled: the stream is kept and its track listened to.
ConnectResolved ==
    /\ isConnecting
    /\ captureTrack' = "live"
    /\ hasActiveShare' = TRUE
    /\ isConnecting' = FALSE
    /\ UNCHANGED <<isRecording, recordingSeconds, autoStopEnabled, recSessions,
                   mediaRecorderRef, recordingStreamRef, recordedVideo, connects,
                   errorNotices, hookRecVars, otherVars>>

\* getDisplayMedia rejected
ConnectRejected ==
    /\ isConnecting
    /\ Len(errorNotices) < MaxNotices
    /\ errorNotices' = Append(errorNotices,
                              RecNotice("Window Connection Failed", "Permission denied"))
    /\ isConnecting' = FALSE
    /\ UNCHANGED <<hasActiveShare, isRecording, recordingSeconds, autoStopEnabled, captureTrack,
                   recSessions, mediaRecorderRef, recordingStreamRef, recordedVideo, connects,
                   hookRecVars, otherVars>>

\* Disconnect Game Window (toggleShareConnection with a share): disconnectShare
DisconnectShare ==
    /\ hasActiveShare /\ ~isProcessing /\ ~isRecording /\ ~isConnecting
    /\ SetController(stopSharing(stopRecordingStream(stopRecording(Controller), 0)))
    /\ UNCHANGED <<isConnecting, autoStopEnabled, recordedVideo, connects, errorNotices,
                   hookRecVars, otherVars>>

\* The captured window goes away: the track of the capture stream and its
\* clones in the recording streams end; the ended listener is still to run.
CaptureEnds ==
    /\ captureTrack = "live"
    /\ captureTrack' = "ended"
    /\ recSessions' = [k \in 1..Len(recSessions) |->
                          [recSessions[k] EXCEPT !.tracks = "ended"]]
    /\ UNCHANGED <<hasActiveShare, isConnecting, isRecording, recordingSeconds, autoStopEnabled,
                   mediaRecorderRef, recordingStreamRef, recordedVideo, connects,
                   errorNotices, hookRecVars, otherVars>>

\* The ended listener of the capture track
CaptureEndedListener ==
    /\ captureTrack = "ended"
    /\ SetController(stopRecording(clearShareState([Controller EXCEPT !.captureTrack = "none"])))
    /\ UNCHANGED <<isConnecting, autoStopEnabled, recordedVideo, connects, errorNotices,
                   hookRecVars, otherVars>>

\* Start Recording, shown while not recording: startRecording.  With a
\* recorder that is not inactive it returns at once; without a live capture
\* track it reports Recording Unavailable; else it creates and starts a session.
StartRecording ==
    /\ ~isRecording /\ ~isProcessing /\ hasActiveShare /\ ~isConnecting
    /\ ~(mediaRecorderRef # 0 /\ recSessions[mediaRecorderRef].recorder # "inactive")
    /\ IF captureTrack # "live"
       THEN /\ Len(errorNotices) < MaxNotices
            /\ hasActiveShare' = FALSE
            /\ errorNotices' = Append(errorNotices,
                    RecNotice("Recording Unavailable", "Please connect your game window first."))
            /\ UNCHANGED <<isRecording, recordingSeconds, captureTrack, recSessions,
                           mediaRecorderRef, recordingStreamRef>>
       ELSE /\ Len(recSessions) < MaxSessions
            /\ recSessions' = Append(recSessions, NewSession)
            /\ recordingStreamRef' = Len(recSessions) + 1
            /\ mediaRecorderRef' = Len(recSessions) + 1
            /\ recordingSeconds' = 0
            /\ isRecording' = TRUE
            /\ UNCHANGED <<hasActiveShare, captureTrack, errorNotices>>
    /\ UNCHANGED <<isConnecting, autoStopEnabled, recordedVideo, connects, hookRecVars,
                   otherVars>>

\* Stop Recording, shown while recording: stopRecording
StopRecording ==
    /\ isRecording
    /\ SetController(stopRecording(Controller))
    /\ UNCHANGED <<isConnecting, autoStopEnabled, recordedVideo, connects, errorNotices,
                   hookRecVars, otherVars>>

\* The interval of the timer effect fires, and the auto-stop effect runs in
\* the render that follows.
TimerTick ==
    /\ isRecording
    /\ recordingSeconds < MaxSeconds
    /\ SetController(AutoStopEffect([Controller EXCEPT !.recordingSeconds = @ + 1],
                                    autoStopEnabled))
    /\ UNCHANGED <<isConnecting, autoStopEnabled, recordedVideo, connects, errorNotices,
                   hookRecVars, otherVars>>

\* The auto-stop checkbox of the settings dialog; the auto-stop effect runs in
\* the render that follows.
ToggleAutoStop ==
    /\ autoStopEnabled' = ~autoStopEnabled
    /\ SetController(AutoStopEffect(Controller, ~autoStopEnabled))
    /\ UNCHANGED <<isConnecting, recordedVideo, connects, errorNotices, hookRecVars, otherVars>>

\* The recorder of a session fails: its error event calls onError, the
\* recorder is inactive and its stop event is queued.
RecorderError ==
    \E session \in 1..Len(recSessions) :
        /\ recSessions[session].recorder = "recording"
        /\ Len(errorNotices) < MaxNotices
        /\ recSessions' = [recSessions EXCEPT ![session].recorder = "inactive",
                                              ![session].stopEvent = "queued"]
        /\ errorNotices' = Append(errorNotices,
                RecNotice("Recording Error",
                          "An error occurred while capturing video. Please try again."))
        /\ UNCHANGED <<hasActiveShare, isConnecting, isRecording, recordingSeconds,
                       autoStopEnabled, captureTrack, mediaRecorderRef, recordingStreamRef,
                       recordedVideo, connects, hookRecVars, otherVars>>

\* The recorder of a session stops by itself because every track of its
\* stream has ended.
RecorderTracksEnded ==
    \E session \in 1..Len(recSessions) :
        /\ recSessions[session].recorder = "recording"
        /\ recSessions[session].tracks = "ended"
        /\ recSessions' = [recSessions EXCEPT ![session].recorder = "inactive",
                                              ![session].stopEvent = "queued"]
        /\ UNCHANGED <<hasActiveShare, isConnecting, isRecording, recordingSeconds,
                       autoStopEnabled, captureTrack, mediaRecorderRef, recordingStreamRef,
                       recordedVideo, connects, errorNotices, hookRecVars, otherVars>>

\* The stop event of a session: onstop builds the blob and calls onStop, which
\* calls stopRecordingStream and then hands a blob with data to
\* setRecordedVideoBlob and onRecordedBlob (handleRecordedBlob: processVideo),
\* or reports an empty recording.
RecorderStopped ==
    \E session \in 1..Len(recSessions) : \E blobHasData \in BOOLEAN :
        /\ recSessions[session].stopEvent = "queued"
        /\ LET c == stopRecordingStream(Controller, session)
           IN  SetController([c EXCEPT !.recSessions[session].stopEvent = "delivered"])
        /\ IF blobHasData
           THEN /\ recordedVideo' = session
                /\ BeginProcessVideo
                /\ UNCHANGED errorNotices
           ELSE /\ Len(errorNotices) < MaxNotices
                /\ errorNotices' = Append(errorNotices,
                        RecNotice("Empty Recording",
                                  "Recorded video has no data. Please try again."))
                /\ UNCHANGED <<recordedVideo, progress, resultImage, isProcessing,
                               runsInProgress>>
        /\ UNCHANGED <<isConnecting, autoStopEnabled, connects, uploads, otherVars>>

\* Upload Video with a file chosen: handleUpload calls processVideo.
UploadVideo ==
    /\ ~isProcessing /\ ~isRecording
    /\ uploads < MaxUploads
    /\ BeginProcessVideo
    /\ uploads' = uploads + 1
    /\ UNCHANGED <<recVarsButRuns, errorNotices, otherVars>>

\* A run of processVideoToImage settles and processVideo continues after its
\* await: setResultImage or onError, then setIsProcessing(false).
RunSettles ==
    /\ runsInProgress > 0
    /\ \/ /\ resultImage' = RecordedImage
          /\ UNCHANGED errorNotices
       \/ /\ Len(errorNotices) < MaxNotices
          /\ errorNotices' = Append(errorNotices,
                                    ErrorNotice(getErrorMessage(Failure("Failed to load video"))))
          /\ UNCHANGED resultImage
    /\ isProcessing' = FALSE
    /\ runsInProgress' = runsInProgress - 1
    /\ UNCHANGED <<recVarsButRuns, progress, uploads, otherVars>>

NextRec ==
    \/ ConnectShare
    \/ ConnectResolved
    \/ ConnectRejected
    \/ DisconnectShare
    \/ CaptureEnds
    \/ CaptureEndedListener
    \/ StartRecording
    \/ StopRecording
    \/ TimerTick
    \/ ToggleAutoStop
    \/ RecorderError
    \/ RecorderTracksEnded
    \/ RecorderStopped
    \/ UploadVideo
    \/ RunSettles

SpecRec == InitRec /\ [][NextRec]_vars

\* The browser delivers the events it has queued, fires the timer, settles
\* getDisplayMedia and the runs; the user presses Stop while it is shown.
FairSpecRec ==
    /\ SpecRec
    /\ WF_vars(ConnectResolved \/ ConnectRejected)
    /\ WF_vars(CaptureEndedListener)
    /\ WF_vars(RecorderTracksEnded)
    /\ WF_vars(RecorderStopped)
    /\ WF_vars(RunSettles)
    /\ WF_vars(TimerTick)
    /\ WF_vars(StopRecording)

----------------------------------------------------------------------------
(* Properties of the active-range detector *)

\* C1: for every metrics sequence of length frameCount >= 1, the range that
\* detectActiveFrameRange returns satisfies 0 <= start <= end <= frameCount-1.
RangeWithinBounds ==
    (pc = "range_done" /\ Len(frameMetrics) >= 1) =>
        /\ 0 <= activeRange.start
        /\ activeRange.start <= activeRange.end
        /\ activeRange.end <= Len(frameMetrics) - 1

\* A sequence of at least three frames none of which is a strict or a relaxed
\* candidate has been given to the detector, which returned the whole sequence.
RangeWithinBoundsWitness ==
    /\ pc = "range_done"
    /\ Len(frameMetrics) >= 3
    /\ \A i \in 1..Len(frameMetrics) :
          ~strictCandidate(frameMetrics)[i] /\ ~motionCandidate(frameMetrics)[i]
    /\ activeRange = [start |-> 0, end |-> Len(frameMetrics) - 1]

\* 1-based positions of the frames that lie in a run of at least minActiveStreak
\* consecutive candidates.
QualifyingFrames(candidate) ==
    { i \in 1..Len(candidate) :
        \E a \in 1..i : \E b \in i..Len(candidate) :
            /\ b - a + 1 >= minActiveStreak
            /\ \A j \in a..b : candidate[j] }

SetMin(S) == CHOOSE x \in S : \A y \in S : x <= y
SetMax(S) == CHOOSE x \in S : \A y \in S : x >= y

\* C8: when the strict candidates contain a run of at least minActiveStreak
\* consecutive frames, the result is [max(0, first - marginFrames),
\* min(frameCount - 1, last + marginFrames)], first being the first frame of the
\* earliest such run and last the last frame of the latest one; shorter runs do
\* not count. The 30-frame scenario with candidates 10..20 gives [8, 22].
StrictRunRange ==
    pc = "range_done" =>
        LET qualifying == QualifyingFrames(strictCandidate(frameMetrics))
        IN  /\ qualifying # {} =>
                 activeRange =
                    [start |-> Max(0, (SetMin(qualifying) - 1) - marginFrames),
                     end |-> Min(Len(frameMetrics) - 1, (SetMax(qualifying) - 1) + marginFrames)]
            /\ frameMetrics = ScenarioMetrics => activeRange = [start |-> 8, end |-> 22]

\* The detector has processed the 30-frame scenario.
StrictRunRangeWitness ==
    /\ pc = "range_done"
    /\ frameMetrics = ScenarioMetrics
    /\ QualifyingFrames(strictCandidate(frameMetrics)) = 11..21
    /\ activeRange = [start |-> 8, end |-> 22]

----------------------------------------------------------------------------
(* Properties of the merge-frame filter and of the detector's tiers *)

\* C13: for a metrics sequence of length >= 1 and its active range, the merge
\* list is not empty, strictly increasing, and within [range.start, range.end].
MergeListWellFormed ==
    pc = "merge_list_done" =>
        /\ Len(mergeFrameIndices) >= 1
        /\ \A i \in 1..(Len(mergeFrameIndices) - 1) :
              mergeFrameIndices[i] < mergeFrameIndices[i + 1]
        /\ \A i \in 1..Len(mergeFrameIndices) :
              /\ activeRange.start <= mergeFrameIndices[i]
              /\ mergeFrameIndices[i] <= activeRange.end

\* The filter has fallen through to the whole range of a sequence of several
\* frames: no frame is in the baseline band and none moves.
MergeListWitness ==
    /\ pc = "merge_list_done"
    /\ Len(frameMetrics) >= 3
    /\ \A i \in 1..Len(frameMetrics) :
          /\ ~isBaselineWithinActiveRange(frameMetrics[i].baselineRatio)
          /\ frameMetrics[i].motionRatio.n = 0
    /\ Len(mergeFrameIndices) = Len(frameMetrics)

\* The rules of the detector's tiers, as sets of 0-based frame indices.
InBand(i) ==
    /\ FracLe(minBaselineRatio, frameMetrics[i + 1].baselineRatio)
    /\ FracLe(frameMetrics[i + 1].baselineRatio, maxBaselineRatio)

StrictRule(i) == InBand(i) /\ FracLe(minMotionRatio, frameMetrics[i + 1].motionRatio)

\* motionRatio >= max(minMotionRatio, 0.35 x the maximum observed motionRatio)
\* and baselineRatio >= minBaselineRatio / 2
RelaxedRule(i) ==
    /\ FracLe(minMotionRatio, frameMetrics[i + 1].motionRatio)
    /\ \A j \in 1..Len(frameMetrics) :
          35 * frameMetrics[j].motionRatio.n * frameMetrics[i + 1].motionRatio.d
            <= 100 * frameMetrics[i + 1].motionRatio.n * frameMetrics[j].motionRatio.d
    /\ minBaselineRatio.n * frameMetrics[i + 1].baselineRatio.d
          <= 2 * minBaselineRatio.d * frameMetrics[i + 1].baselineRatio.n

\* The frames of the runs of at least minActiveStreak consecutive frames that
\* satisfy the rule (a function on 0-based indices).
FramesInRuns(rule) ==
    { i \in 0..(Len(frameMetrics) - 1) :
        \E a \in 0..i : \E b \in i..(Len(frameMetrics) - 1) :
            /\ b - a + 1 >= minActiveStreak
            /\ \A j \in a..b : rule[j] }

RangeOfRuns(frames) ==
    [start |-> Max(0, SetMin(frames) - marginFrames),
     end |-> Min(Len(frameMetrics) - 1, SetMax(frames) + marginFrames)]

\* C14: the range is that of the strict runs when there is one; that of the
\* relaxed runs only when there is no strict run; and the whole sequence only
\* when there is no relaxed run either.
TiersInOrder ==
    (pc \in {"range_done", "merge_list_done"} /\ Len(frameMetrics) >= 1) =>
        LET strictFrames ==
                FramesInRuns([i \in 0..(Len(frameMetrics) - 1) |-> StrictRule(i)])
            relaxedFrames ==
                FramesInRuns([i \in 0..(Len(frameMetrics) - 1) |-> RelaxedRule(i)])
        IN  activeRange =
                IF strictFrames # {} THEN RangeOfRuns(strictFrames)
                ELSE IF relaxedFrames # {} THEN RangeOfRuns(relaxedFrames)
                ELSE [start |-> 0, end |-> Len(frameMetrics) - 1]

\* The detector returned the range of a strict run although the sequence also
\* has a relaxed run that gives another range.
TiersInOrderWitness ==
    /\ pc = "range_done"
    /\ Len(frameMetrics) >= 1
    /\ LET strictFrames ==
               FramesInRuns([i \in 0..(Len(frameMetrics) - 1) |-> StrictRule(i)])
           relaxedFrames ==
               FramesInRuns([i \in 0..(Len(frameMetrics) - 1) |-> RelaxedRule(i)])
       IN  /\ strictFrames # {}
           /\ relaxedFrames # {}
           /\ RangeOfRuns(strictFrames) # RangeOfRuns(relaxedFrames)
           /\ activeRange = RangeOfRuns(strictFrames)

\* The frames of the merge list, as a set.
MergeFrames == { mergeFrameIndices[i] : i \in 1..Len(mergeFrameIndices) }

ActiveFrames == activeRange.start..activeRange.end

\* C20 as stated: when the first tier of the filter selects, the merge list is
\* the frames of the active range with baselineRatio in the band and
\* motionRatio >= minMotionRatio.
FirstTierIsStrictRule ==
    (pc = "merge_list_done" /\ \E f \in ActiveFrames : StrictRule(f)) =>
        MergeFrames = { f \in ActiveFrames : StrictRule(f) }

\* C20, amended: when the active range has a frame with baselineRatio in the
\* band, the merge list is exactly the frames of the active range with
\* baselineRatio in the band, whatever their motionRatio.
FirstTierIsBaselineBand ==
    (pc = "merge_list_done" /\ \E f \in ActiveFrames : InBand(f)) =>
        MergeFrames = { f \in ActiveFrames : InBand(f) }

\* The first tier has selected a frame whose motionRatio is below
\* minMotionRatio together with a frame that satisfies the detector's rule.
FirstTierWitness ==
    /\ pc = "merge_list_done"
    /\ \E f, g \in MergeFrames :
          /\ InBand(f) /\ ~StrictRule(f)
          /\ StrictRule(g)
    /\ MergeFrames = { f \in ActiveFrames : InBand(f) }

----------------------------------------------------------------------------
(* Properties of useVideoProcessing and of repeated runs *)

\* The k-th supplied video is being processed.
Processing(k) == uploads = k /\ isProcessing

\* The result image of the k-th video is visible with a PNG data URL as src.
ResultShown(k) == uploads = k /\ ResultImageVisible /\ IsPngDataUrl(resultImage)

\* A step that hides a visible result image without a new upload (Clear)
\* leaves resultImage null and progress 0/0, and the upload button enabled.
ClearHidesResult ==
    (ResultImageVisible /\ ~ResultImageVisible' /\ uploads' = uploads) =>
        /\ resultImage' = NoImage
        /\ progress' = [current |-> 0, total |-> 0]
        /\ ~isProcessing'

SettledRejected == pc = "settled" /\ outcome.kind = "error"

RejectionReported ==
    /\ pc = "settled" => ~isProcessing
    /\ SettledRejected =>
          /\ resultImage = NoImage
          /\ Len(errorNotices) >= 1
          /\ errorNotices[Len(errorNotices)].description = outcome.message

\* onError is called only when a rejected run settles, and then once.
ReportedOnce ==
    errorNotices' # errorNotices =>
        /\ pc = "failed"
        /\ pc' = "settled"
        /\ Len(errorNotices') = Len(errorNotices) + 1
        /\ SubSeq(errorNotices', 1, Len(errorNotices)) = errorNotices

\* C17: when processVideoToImage rejects, processVideo calls onError exactly
\* once with the error's message unchanged as the description, leaves
\* resultImage null and sets isProcessing back to false; after processVideo
\* settles on any outcome isProcessing is false.
RejectionReportedOnce ==
    /\ []RejectionReported
    /\ [][ReportedOnce]_vars

\* Two runs were rejected for different reasons, each reported once.
RejectionReportedWitness ==
    /\ SettledRejected
    /\ ~isProcessing
    /\ uploads = 2
    /\ Len(errorNotices) = 2
    /\ errorNotices[1].description # errorNotices[2].description
    /\ errorNotices[2].description = "Unable to seek video frame"

----------------------------------------------------------------------------
(* Bounds of the onProgress calls *)

\* The onProgress calls a step adds to the log.
NewProgressCalls ==
    { progressLog'[i] : i \in (Len(progressLog) + 1)..Len(progressLog') }

\* max(1, floor(duration x fps)) for the run's video, duration in milliseconds
ExpectedFrameCount ==
    IF video.duration * fps < MsPerSecond THEN 1
    ELSE CHOOSE k \in 1..(video.duration * fps) :
            /\ k * MsPerSecond <= video.duration * fps
            /\ video.duration * fps < (k + 1) * MsPerSecond

ProgressCallsInTotal ==
    \A i \in 1..Len(progressLog) :
        /\ frameCount = ExpectedFrameCount
        /\ progressLog[i].total = 2 * frameCount
        /\ 0 <= progressLog[i].current
        /\ progressLog[i].current <= progressLog[i].total

AnalysisCallsInFirstHalf ==
    pc \in {"seek_start", "baseline", "analyze"} =>
        \A call \in NewProgressCalls : call.current <= frameCount'

MergeCallsInSecondHalf ==
    pc = "merge" =>
        \A call \in NewProgressCalls :
            /\ frameCount < call.current
            /\ call.current <= 2 * frameCount

\* C15: every onProgress call passes total = 2 x frameCount with
\* frameCount = max(1, floor(duration x fps)) and 0 <= current <= total; the
\* calls up to the end of the analysis pass have current <= frameCount, and
\* the calls of the merge pass have frameCount < current <= 2 x frameCount.
ProgressWithinPhases ==
    /\ []ProgressCallsInTotal
    /\ [][AnalysisCallsInFirstHalf /\ MergeCallsInSecondHalf]_vars

\* A completed run of several frames whose analysis pass reported its last
\* frame and whose merge pass reported both a partial and a full second half.
ProgressWithinPhasesWitness ==
    /\ pc = "done"
    /\ frameCount >= 3
    /\ Len(mergeFrameIndices) >= 2
    /\ \E i, j, k \in 1..Len(progressLog) :
          /\ i < j /\ j < k /\ k < Len(progressLog)
          /\ progressLog[i].current = frameCount
          /\ progressLog[j].current > frameCount
          /\ progressLog[j].current < 2 * frameCount
          /\ progressLog[k].current = 2 * frameCount

\* The relaxed rule with the maximum motionRatio taken over the active range.
RelaxedRuleInRange(i) ==
    /\ FracLe(minMotionRatio, frameMetrics[i + 1].motionRatio)
    /\ \A j \in ActiveFrames :
          35 * frameMetrics[j + 1].motionRatio.n * frameMetrics[i + 1].motionRatio.d
            <= 100 * frameMetrics[i + 1].motionRatio.n * frameMetrics[j + 1].motionRatio.d
    /\ minBaselineRatio.n * frameMetrics[i + 1].baselineRatio.d
          <= 2 * minBaselineRatio.d * frameMetrics[i + 1].baselineRatio.n

\* The first tier of the filter selects no frame.
FirstTierEmpty == pc = "merge_list_done" /\ \A f \in ActiveFrames : ~InBand(f)

\* The merge list is the frames of the set, in increasing order.
MergeListIs(frames) ==
    /\ MergeFrames = frames
    /\ Len(mergeFrameIndices) = Cardinality(frames)
    /\ \A i \in 1..(Len(mergeFrameIndices) - 1) :
          mergeFrameIndices[i] < mergeFrameIndices[i + 1]

\* C21 as stated: when the first tier selects no frame, the merge list is the
\* active-range frames that satisfy the detector's relaxed rule (threshold from
\* the maximum motionRatio of the metrics sequence); when there is none, it is
\* every frame of the active range in increasing order.
FallbackIsDetectorRule ==
    FirstTierEmpty =>
        IF \E f \in ActiveFrames : RelaxedRule(f)
        THEN MergeListIs({ f \in ActiveFrames : RelaxedRule(f) })
        ELSE MergeListIs(ActiveFrames)

\* C21, amended: the relaxed rule of the filter takes its motion threshold
\* from the maximum motionRatio within the active range.
FallbackIsRangeRule ==
    FirstTierEmpty =>
        IF \E f \in ActiveFrames : RelaxedRuleInRange(f)
        THEN MergeListIs({ f \in ActiveFrames : RelaxedRuleInRange(f) })
        ELSE MergeListIs(ActiveFrames)

\* The second tier has selected a frame that the detector's relaxed rule
\* rejects, and has left out another frame of the range.
FallbackWitness ==
    /\ FirstTierEmpty
    /\ \E f \in MergeFrames : ~RelaxedRule(f)
    /\ MergeFrames # ActiveFrames
    /\ MergeFrames = { f \in ActiveFrames : RelaxedRuleInRange(f) }

----------------------------------------------------------------------------
(* Properties of the candidate list *)

\* C3: after any sequence of pushCardCandidate insertions the list has at most
\* CARD_CANDIDATE_LIMIT entries, is sorted in non-increasing score order and
\* holds no two entries with the same frameIndex.
CandidateListWellFormed ==
    /\ Len(candidates) <= CARD_CANDIDATE_LIMIT
    /\ \A i \in 1..(Len(candidates) - 1) :
          FracLe(candidates[i + 1].score, candidates[i].score)
    /\ \A i, j \in 1..Len(candidates) :
          i # j => candidates[i].frameIndex # candidates[j].frameIndex

\* A full list whose latest insertion was cut off by the truncation.
CandidateListWitness ==
    /\ Len(candidates) = CARD_CANDIDATE_LIMIT
    /\ lastPush # NoCandidate
    /\ \A i \in 1..Len(candidates) : candidates[i].frameIndex # lastPush.frameIndex
    /\ FracLt(candidates[CARD_CANDIDATE_LIMIT].score, candidates[1].score)

\* The entries of the list, as a set.
KeptCandidates == { candidates[i] : i \in 1..Len(candidates) }

\* C26: after candidates with pairwise distinct frame indices have been
\* inserted into an empty list, in any order, the list holds min(K, n) of
\* them and no candidate that was dropped has a score strictly greater than
\* one that was kept.
ListKeepsHighestScores ==
    inserted.distinct =>
        /\ Len(candidates) = Min(CARD_CANDIDATE_LIMIT, Cardinality(inserted.all))
        /\ Cardinality(KeptCandidates) = Len(candidates)
        /\ KeptCandidates \subseteq inserted.all
        /\ \A dropped \in inserted.all \ KeptCandidates : \A kept \in KeptCandidates :
              ~FracLt(kept.score, dropped.score)

\* More candidates than the limit have been inserted, the latest one was kept
\* and pushed out an earlier one of strictly lower score than every kept one.
ListKeepsHighestWitness ==
    /\ inserted.distinct
    /\ Cardinality(inserted.all) > CARD_CANDIDATE_LIMIT
    /\ lastPush \in KeptCandidates
    /\ candidates[1] # lastPush
    /\ \E dropped \in inserted.all \ KeptCandidates : \A kept \in KeptCandidates :
          FracLt(dropped.score, kept.score)

----------------------------------------------------------------------------
(* Properties of the grid region builder *)

\* The acceptance rule for a layout: no negative offset or gap, positive card
\* size, occupied width and height at most 1.
LayoutAccepted(layout) ==
    /\ layout.left >= 0 /\ layout.top >= 0 /\ layout.gapX >= 0 /\ layout.gapY >= 0
    /\ layout.cardWidth > 0 /\ layout.cardHeight > 0
    /\ layout.left + GRID_COLS * layout.cardWidth + (GRID_COLS - 1) * layout.gapX <= LayoutUnit
    /\ layout.top + GRID_ROWS * layout.cardHeight + (GRID_ROWS - 1) * layout.gapY <= LayoutUnit

RectNonEmpty(r) == r.right > r.left /\ r.bottom > r.top
RectInside(inner, outer) ==
    /\ outer.left <= inner.left /\ inner.right <= outer.right
    /\ outer.top <= inner.top /\ inner.bottom <= outer.bottom
FrameRect == Rect(0, 0, frameWidth, frameHeight)

\* C5: with a valid percentage layout and any frame of at least 1 x 1,
\* buildGridRegions returns GRID_ROWS x GRID_COLS regions in row-major order,
\* every evalRect is non-empty, inside the frame and inside its copyRect, and
\* every copyRect is inside the frame.
PercentRegionsWellFormed ==
    (pc = "grid_done" /\ LayoutAccepted(cardLayoutPercent)) =>
        /\ Len(gridRegions) = GRID_ROWS * GRID_COLS
        /\ \A row \in 0..(GRID_ROWS - 1) : \A col \in 0..(GRID_COLS - 1) :
              LET region == gridRegions[row * GRID_COLS + col + 1]
              IN  /\ region = toGridCellRegion(
                                 percentBaseRect(cardLayoutPercent, frameWidth, frameHeight, row, col),
                                 frameWidth, frameHeight, TRUE)
                  /\ RectNonEmpty(region.evalRect)
                  /\ RectInside(region.evalRect, FrameRect)
                  /\ RectInside(region.evalRect, region.copyRect)
                  /\ RectInside(region.copyRect, FrameRect)

\* The configured layout has been applied to an 800 x 300 frame; the first cell
\* is padded beyond its evaluation rectangle and the cells advance along the row.
PercentRegionsWitness ==
    /\ pc = "grid_done"
    /\ cardLayoutPercent = ConfigLayout
    /\ frameWidth = 800 /\ frameHeight = 300
    /\ gridRegions[1].copyRect = Rect(59, 66, 135, 137)
    /\ gridRegions[1].evalRect = Rect(68, 77, 126, 128)
    /\ gridRegions[2].copyRect.left > gridRegions[1].copyRect.right
    /\ gridRegions[GRID_COLS + 1].copyRect.top > gridRegions[1].copyRect.bottom

\* C6: for any frame of at least 1 x 1, every copyRect and evalRect of the
\* uniform-grid fallback has right > left and bottom > top, lies within the
\* frame, and the evalRect lies inside the copyRect.
UniformRectsWellFormed ==
    (pc = "grid_done" /\ ~LayoutAccepted(cardLayoutPercent)) =>
        \A k \in 1..Len(gridRegions) :
            /\ RectNonEmpty(gridRegions[k].copyRect)
            /\ RectNonEmpty(gridRegions[k].evalRect)
            /\ RectInside(gridRegions[k].copyRect, FrameRect)
            /\ RectInside(gridRegions[k].evalRect, FrameRect)
            /\ RectInside(gridRegions[k].evalRect, gridRegions[k].copyRect)

\* C7: every layout that is not accepted yields exactly the uniform grid, whose
\* copyRects are the unpadded cells between the rounded edges; the rejected
\* scenario layout on an 800 x 300 frame gives cell 0 the copyRect {0,0,100,100}.
UniformFallbackOnRejectedLayout ==
    pc = "grid_done" =>
        /\ ~LayoutAccepted(cardLayoutPercent) =>
              /\ gridRegions = buildUniformGridRegions(frameWidth, frameHeight)
              /\ Len(gridRegions) = GRID_ROWS * GRID_COLS
              /\ \A row \in 0..(GRID_ROWS - 1) : \A col \in 0..(GRID_COLS - 1) :
                    gridRegions[row * GRID_COLS + col + 1].copyRect =
                        Rect((2 * col * frameWidth + GRID_COLS) \div (2 * GRID_COLS),
                             (2 * row * frameHeight + GRID_ROWS) \div (2 * GRID_ROWS),
                             (2 * (col + 1) * frameWidth + GRID_COLS) \div (2 * GRID_COLS),
                             (2 * (row + 1) * frameHeight + GRID_ROWS) \div (2 * GRID_ROWS))
        /\ (cardLayoutPercent = ScenarioLayout /\ frameWidth = 800 /\ frameHeight = 300) =>
              gridRegions[1].copyRect = Rect(0, 0, 100, 100)

\* The scenario layout has been rejected on an 800 x 300 frame.
UniformFallbackWitness ==
    /\ pc = "grid_done"
    /\ cardLayoutPercent = ScenarioLayout
    /\ frameWidth = 800 /\ frameHeight = 300
    /\ gridRegions[1].copyRect = Rect(0, 0, 100, 100)
    /\ gridRegions[GRID_ROWS * GRID_COLS].copyRect = Rect(700, 200, 800, 300)

\* Two rectangles share at least one pixel.
RectsOverlap(a, b) ==
    /\ a.left < b.right /\ b.left < a.right
    /\ a.top < b.bottom /\ b.top < a.bottom

\* C25: for a given frame size the copyRects of distinct cells are pairwise
\* disjoint, so that copying or filling one cell never changes a pixel inside
\* another cell's copyRect.
CopyRectsDisjoint ==
    pc = "grid_done" =>
        \A i, j \in 1..Len(gridRegions) :
            i # j => ~RectsOverlap(gridRegions[i].copyRect, gridRegions[j].copyRect)

----------------------------------------------------------------------------
(* Properties of a run of processVideoToImage *)

\* C2: the current values of successive onProgress calls of a run never
\* decrease, and when the run has completed the last call has current = total.
ProgressMonotone ==
    /\ \A i \in 2..Len(progressLog) :
          progressLog[i].current >= progressLog[i - 1].current
    /\ pc = "done" =>
          /\ Len(progressLog) > 0
          /\ progressLog[Len(progressLog)].current = progressLog[Len(progressLog)].total

\* A completed run whose analysis pass and merge pass both reported progress
\* at the update interval and again at their last frame.
ProgressMonotoneWitness ==
    /\ pc = "done"
    /\ frameCount > progressUpdateInterval
    /\ Len(mergeFrameIndices) > progressUpdateInterval
    /\ \E i \in 1..Len(progressLog) : progressLog[i].current = progressUpdateInterval
    /\ \E i, j \in 1..Len(progressLog) :
          /\ i < j
          /\ progressLog[i].current > frameCount
          /\ progressLog[j].current > progressLog[i].current
          /\ progressLog[j].current < 2 * frameCount + 1
          /\ j < Len(progressLog)

\* C4: every write of the fallback filler went to a composite pixel that, at
\* the moment of the write, was within the threshold of the baseline pixel.
FillerKeepsResolvedPixels ==
    \A w \in fillWrites :
        ~Exceeds(getBrightnessDiff(<<w.before>>, <<baselineData[w.pixel]>>, 1), threshold)

\* The filler has written a pixel in a run that completed, and another pixel
\* of the same copyRect was resolved and kept its value.
FillerKeepsResolvedWitness ==
    /\ pc = "done"
    /\ \E w \in fillWrites :
          /\ w.after # w.before
          /\ resultPixels[w.pixel] = w.after
          /\ \E p \in RectPixels(gridRegions[w.cell + 1].copyRect, frameWidth) :
                /\ p # w.pixel
                /\ Exceeds(getBrightnessDiff(resultPixels, baselineData, p), threshold)
                /\ Exceeds(getBrightnessDiff(framePixelCache[w.frame], baselineData, p), -1)

\* The picture of a frame index, as the decoder showed it at the frame's time.
FramePixelsOf(index) == decoded[SeekTargetOf(FrameTime(index), video.duration)]

\* The merge frames so far that the cell's scoring accepted, in merge order,
\* each with its score.
AcceptedFrames(cell) ==
    LET scored == [i \in 1..mergeIndex |->
            LET stats == scoreCell(FramePixelsOf(mergeFrameIndices[i]),
                                   IF i = 1 THEN <<>>
                                   ELSE FramePixelsOf(mergeFrameIndices[i - 1]),
                                   gridRegions[cell], mergeFrameIndices[i])
            IN  [frameIndex |-> mergeFrameIndices[i], score |-> stats.score,
                 accepted |-> stats.accepted]]
    IN  SelectSeq(scored, LAMBDA e : e.accepted)

\* The cell is scored by exactly two frames, the later one higher.
TwoFrameCell(cell) ==
    /\ Len(AcceptedFrames(cell)) = 2
    /\ FracLt(AcceptedFrames(cell)[1].score, AcceptedFrames(cell)[2].score)

\* No cell whose copyRect meets the cell's copyRect accepts a third frame.
AloneInCopyRect(cell) ==
    \A other \in 1..Len(gridRegions) :
        (RectPixels(gridRegions[other].copyRect, frameWidth)
            \cap RectPixels(gridRegions[cell].copyRect, frameWidth) # {}) =>
        \A i \in 1..Len(AcceptedFrames(other)) :
            AcceptedFrames(other)[i].frameIndex \in
                { AcceptedFrames(cell)[1].frameIndex, AcceptedFrames(cell)[2].frameIndex }

CandidatesOfTwoFrameCell(cell) ==
    << [frameIndex |-> AcceptedFrames(cell)[2].frameIndex,
        score |-> AcceptedFrames(cell)[2].score],
       [frameIndex |-> AcceptedFrames(cell)[1].frameIndex,
        score |-> AcceptedFrames(cell)[1].score] >>

\* The pixel is one that the higher frame leaves within the threshold of the
\* baseline and the lower frame does not.
LeftToLowerFrame(cell, p) ==
    /\ ~Exceeds(getBrightnessDiff(FramePixelsOf(AcceptedFrames(cell)[2].frameIndex),
                                  baselineData, p), threshold)
    /\ Exceeds(getBrightnessDiff(FramePixelsOf(AcceptedFrames(cell)[1].frameIndex),
                                 baselineData, p), threshold)

\* C9 as stated (frame 5 with score 0.4 and frame 12 with score 0.9 stand for
\* any two frames of which the later scores higher): when the run ends, a cell
\* that only these two frames scored has the candidate list <<higher, lower>>
\* and every pixel of its copyRect is the higher frame's pixel.
TwoFrameCellShowsHigherFrame ==
    pc = "done" =>
        \A cell \in 1..Len(gridRegions) :
            (TwoFrameCell(cell) /\ AloneInCopyRect(cell)) =>
                /\ cellCandidates[cell] = CandidatesOfTwoFrameCell(cell)
                /\ \A p \in RectPixels(gridRegions[cell].copyRect, frameWidth) :
                      resultPixels[p] = FramePixelsOf(AcceptedFrames(cell)[2].frameIndex)[p]

\* C9, amended: as above, except that a pixel which the higher frame leaves
\* within the threshold of the baseline and the lower frame does not holds the
\* lower frame's red, green and blue with alpha 255.
TwoFrameCellShowsHigherOrFilled ==
    pc = "done" =>
        \A cell \in 1..Len(gridRegions) :
            (TwoFrameCell(cell) /\ AloneInCopyRect(cell)) =>
                /\ cellCandidates[cell] = CandidatesOfTwoFrameCell(cell)
                /\ \A p \in RectPixels(gridRegions[cell].copyRect, frameWidth) :
                      LET lower == FramePixelsOf(AcceptedFrames(cell)[1].frameIndex)
                          higher == FramePixelsOf(AcceptedFrames(cell)[2].frameIndex)
                      IN  resultPixels[p] =
                            IF LeftToLowerFrame(cell, p)
                            THEN <<lower[p][1], lower[p][2], lower[p][3], 255>>
                            ELSE higher[p]

\* A completed run with a two-frame cell of which one copyRect pixel shows the
\* higher frame's revealed content and another was filled from the lower frame.
TwoFrameCellWitness ==
    /\ pc = "done"
    /\ \E cell \in 1..Len(gridRegions) :
          /\ TwoFrameCell(cell)
          /\ AloneInCopyRect(cell)
          /\ \E p, q \in RectPixels(gridRegions[cell].copyRect, frameWidth) :
                /\ LeftToLowerFrame(cell, p)
                /\ resultPixels[p] # FramePixelsOf(AcceptedFrames(cell)[2].frameIndex)[p]
                /\ ~LeftToLowerFrame(cell, q)
                /\ Exceeds(getBrightnessDiff(resultPixels, baselineData, q), threshold)

\* The loaded video has no duration or no picture.
DegenerateVideo ==
    video.duration <= 0 \/ video.videoWidth = 0 \/ video.videoHeight = 0

SeekFailureEndsRun ==
    \A i \in 1..Len(mediaLog) :
        mediaLog[i].op = "error" =>
            /\ i = Len(mediaLog)
            /\ i > 1
            /\ mediaLog[i - 1] = [op |-> "seek", time |-> mediaLog[i].time]
            /\ pc = "failed"
            /\ seekTarget = NoSeek
            /\ outcome = Failure("Unable to seek video frame")
            /\ outcome.image = <<>>

\* The seek for a runner-up frame failed during fallback filling, after the
\* merge pass had completed.
SeekFailureWitness ==
    /\ pc = "failed"
    /\ Len(mediaLog) > 0
    /\ mediaLog[Len(mediaLog)].op = "error"
    /\ Len(mergeFrameIndices) > 0
    /\ mergeIndex = Len(mergeFrameIndices)
    /\ \E cell \in 1..Len(cellCandidates) : Len(cellCandidates[cell]) >= 2

\* C12: the object URL is never revoked more than once, and it has been
\* revoked exactly once when the run has ended, with an image or an error.
UrlRevokedOnceOnExit ==
    /\ revokedUrls <= 1
    /\ pc \in {"done", "failed"} => revokedUrls = 1
    /\ outcome # Pending => revokedUrls = 1

\* The run ended because the 2D context was unavailable, and the URL is revoked.
UrlRevokedWitness ==
    /\ pc = "failed"
    /\ outcome = Failure("Canvas 2D context is not available")
    /\ revokedUrls = 1

\* The time at which the latest seek before position i of the history ended
\* (the video starts at time 0).
RECURSIVE LandedTime(_)
LandedTime(i) ==
    IF i <= 1 THEN 0
    ELSE IF mediaLog[i - 1].op = "seeked" THEN mediaLog[i - 1].time
    ELSE LandedTime(i - 1)

\* C19: a seek is issued only when none is pending, so at most one is
\* outstanding; nothing is read while a seek is pending, and every read is of
\* the frame on which the latest seek ended.
SeeksAreSerial ==
    \A i \in 1..Len(mediaLog) :
        /\ mediaLog[i].op = "seek" =>
              IF i = Len(mediaLog) THEN seekTarget = mediaLog[i].time
              ELSE mediaLog[i + 1].op \in {"seeked", "error"}
        /\ mediaLog[i].op \in {"seeked", "error"} =>
              i > 1 /\ mediaLog[i - 1].op = "seek"
        /\ mediaLog[i].op = "read" =>
              /\ i > 1 => mediaLog[i - 1].op # "seek"
              /\ mediaLog[i].time = LandedTime(i)

\* A completed run in which the analysis pass, the merge pass and the filler
\* each read a frame right after the seek for it had ended.
SeeksAreSerialWitness ==
    /\ pc = "done"
    /\ framePixelCache # <<>>
    /\ \E i, j, k \in 3..Len(mediaLog) :
          /\ i < j /\ j < k
          /\ \A r \in {i, j, k} :
                /\ mediaLog[r].op = "read"
                /\ mediaLog[r - 1].op = "seeked"
                /\ mediaLog[r - 2].op = "seek"
          /\ k = Len(mediaLog)

----------------------------------------------------------------------------
(* Properties of the merge pass *)

\* The pixels of the cell's copyRect.
CopyPixels(cell) == RectPixels(gridRegions[cell].copyRect, frameWidth)

\* A step of the merge loop: one more merge frame has been processed.
MergeFrameStep == pc = "merge" /\ mergeIndex' = mergeIndex + 1

\* The statistics of the cell in the merge frame of the step; the frame that
\* the step read is the next step's previous frame.
StepStats(cell) ==
    scoreCell(previousMergePixels', previousMergePixels, gridRegions[cell],
              mergeFrameIndices[mergeIndex + 1])

\* The step leaves the cell's candidate list and stored best score alone.
StepKeepsCellRanking(cell) ==
    /\ cellCandidates'[cell] = cellCandidates[cell]
    /\ bestCellScores'[cell] = bestCellScores[cell]

\* The step registers the frame with its score in the cell's candidate list.
StepRegistersCandidate(cell) ==
    cellCandidates'[cell] =
        pushCardCandidate(cellCandidates[cell],
            [frameIndex |-> mergeFrameIndices[mergeIndex + 1], score |-> StepStats(cell).score])

\* C22: a merge frame whose changedRatio in a cell is below the minimum reveal
\* ratio, or whose localMotionRatio (for the first merge frame the global
\* motionRatio) is above the maximum, leaves the cell's candidate list, best
\* score and composite pixels unchanged; otherwise the frame is registered as a
\* candidate of the cell with its score.
RejectedFrameLeavesCell ==
    [][MergeFrameStep =>
        \A cell \in 1..Len(gridRegions) :
            IF StepStats(cell).accepted
            THEN StepRegistersCandidate(cell)
            ELSE /\ StepKeepsCellRanking(cell)
                 /\ \A p \in CopyPixels(cell) : resultPixels'[p] = resultPixels[p]]_vars

\* The same, the composite pixels being those that lie in no copyRect of a
\* cell for which the frame is accepted.
RejectedFrameLeavesOwnPixels ==
    [][MergeFrameStep =>
        \A cell \in 1..Len(gridRegions) :
            IF StepStats(cell).accepted
            THEN StepRegistersCandidate(cell)
            ELSE /\ StepKeepsCellRanking(cell)
                 /\ \A p \in CopyPixels(cell) :
                       (\A other \in 1..Len(gridRegions) :
                           StepStats(other).accepted => p \notin CopyPixels(other))
                       => resultPixels'[p] = resultPixels[p]]_vars

\* The merge loop has ended and the filler has written nothing yet.
MergePassDone == pc = "fill" /\ mergeIndex = Len(mergeFrameIndices) /\ fillWrites = {}

\* The copyRect pixels of the cell are those of the frame.
CellShowsFrame(cell, index) ==
    \A p \in CopyPixels(cell) : resultPixels[p] = FramePixelsOf(index)[p]

\* The accepted frame of the cell with the highest score, the earliest on ties.
TopAccepted(cell) ==
    LET accepted == AcceptedFrames(cell)
        top == CHOOSE i \in 1..Len(accepted) :
                  /\ \A j \in 1..Len(accepted) : FracLe(accepted[j].score, accepted[i].score)
                  /\ \A j \in 1..(i - 1) : FracLt(accepted[j].score, accepted[i].score)
    IN  accepted[top]

\* The stored 32-bit value is the number itself.
StoredEquals(stored, score) == FracEq(stored.score, score) /\ stored.dir = 0

\* C23: after every merge frame has been processed, the copyRect of each cell
\* that accepted a frame holds the pixels of the cell's rank-1 candidate frame
\* (the accepted frame with the highest score, the earliest on ties) and the
\* cell's stored running best equals that candidate's score; a cell that
\* accepted no frame has its running best at the sentinel -1.
BestIsTopCandidate ==
    MergePassDone =>
        \A cell \in 1..Len(gridRegions) :
            IF AcceptedFrames(cell) = <<>>
            THEN bestCellScores[cell] = BestScoreSentinel
            ELSE /\ cellCandidates[cell][1].frameIndex = TopAccepted(cell).frameIndex
                 /\ cellCandidates[cell][1].score = TopAccepted(cell).score
                 /\ CellShowsFrame(cell, cellCandidates[cell][1].frameIndex)
                 /\ StoredEquals(bestCellScores[cell], cellCandidates[cell][1].score)

\* Every other cell has the same rectangles as the cell or a copyRect apart
\* from the cell's.
SeparateCell(cell) ==
    \A other \in 1..Len(gridRegions) :
        \/ gridRegions[other] = gridRegions[cell]
        \/ ~RectsOverlap(gridRegions[other].copyRect, gridRegions[cell].copyRect)

\* The same for the cells that no different cell overlaps.
BestIsTopCandidateOfSeparateCell ==
    MergePassDone =>
        \A cell \in 1..Len(gridRegions) :
            SeparateCell(cell) =>
                IF AcceptedFrames(cell) = <<>>
                THEN bestCellScores[cell] = BestScoreSentinel
                ELSE /\ cellCandidates[cell][1].frameIndex = TopAccepted(cell).frameIndex
                     /\ cellCandidates[cell][1].score = TopAccepted(cell).score
                     /\ CellShowsFrame(cell, cellCandidates[cell][1].frameIndex)
                     /\ StoredEquals(bestCellScores[cell], cellCandidates[cell][1].score)

\* The same without the rounding of the stored score: the copyRect shows the
\* rank-1 candidate or a later frame of the same score.
SeparateCellShowsATopFrame ==
    MergePassDone =>
        \A cell \in 1..Len(gridRegions) :
            SeparateCell(cell) =>
                IF AcceptedFrames(cell) = <<>>
                THEN bestCellScores[cell] = BestScoreSentinel
                ELSE /\ cellCandidates[cell][1].frameIndex = TopAccepted(cell).frameIndex
                     /\ cellCandidates[cell][1].score = TopAccepted(cell).score
                     /\ FracEq(bestCellScores[cell].score, cellCandidates[cell][1].score)
                     /\ \E i \in 1..Len(AcceptedFrames(cell)) :
                           /\ FracEq(AcceptedFrames(cell)[i].score, TopAccepted(cell).score)
                           /\ CellShowsFrame(cell, AcceptedFrames(cell)[i].frameIndex)

----------------------------------------------------------------------------
(* Properties of the fallback filler *)

\* The composite pixel when filling started: the filler writes a pixel at
\* most once (FillerKeepsResolvedPixels), so it is the value before that write.
PixelAtFillStart(p) ==
    IF \E w \in fillWrites : w.pixel = p
    THEN (CHOOSE w \in fillWrites : w.pixel = p).before
    ELSE resultPixels[p]

UnresolvedAtFillStart(p) ==
    ~Exceeds(getBrightnessDiff(<<PixelAtFillStart(p)>>, <<baselineData[p]>>, 1), threshold)

\* The ranks (2..K) of the cell's runner-ups whose pixel at p differs from the
\* baseline by more than the threshold.
RevealingRunnerUps(cell, p) ==
    { k \in 2..Len(cellCandidates[cell]) :
        Exceeds(getBrightnessDiff(FramePixelsOf(cellCandidates[cell][k].frameIndex),
                                  baselineData, p), threshold) }

\* What the claim expects at the pixel of the cell when the run is done.
FilledAsRanked(cell, p) ==
    IF Len(cellCandidates[cell]) < 2 THEN resultPixels[p] = PixelAtFillStart(p)
    ELSE UnresolvedAtFillStart(p) =>
            IF RevealingRunnerUps(cell, p) = {} THEN resultPixels[p] = PixelAtFillStart(p)
            ELSE LET rank == CHOOSE k \in RevealingRunnerUps(cell, p) :
                                \A other \in RevealingRunnerUps(cell, p) : k <= other
                 IN  resultPixels[p] = FramePixelsOf(cellCandidates[cell][rank].frameIndex)[p]

\* C24: for each cell with at least two candidates and each pixel of its
\* copyRect within the threshold of the baseline when filling starts, the
\* filler writes the pixel of the highest-ranked runner-up whose pixel there
\* differs from the baseline by more than the threshold and leaves the pixel
\* unchanged when there is none; it does not change the composite pixels of a
\* cell with fewer than two candidates.
FillerUsesBestRunnerUp ==
    pc = "done" =>
        \A cell \in 1..Len(gridRegions) : \A p \in CopyPixels(cell) : FilledAsRanked(cell, p)

\* The same for the cells that no different cell overlaps.
FillerUsesBestRunnerUpOfSeparateCell ==
    pc = "done" =>
        \A cell \in 1..Len(gridRegions) :
            SeparateCell(cell) => \A p \in CopyPixels(cell) : FilledAsRanked(cell, p)

----------------------------------------------------------------------------
(* Properties of the recording controller *)

\* The recorder that mediaRecorderRef holds is recording.
RecorderRecording ==
    mediaRecorderRef # 0 /\ recSessions[mediaRecorderRef].recorder = "recording"

\* The recorder of some session is recording.
SomeRecorderRecording ==
    \E session \in 1..Len(recSessions) : recSessions[session].recorder = "recording"

\* A tick of the recording timer.
TimerTickStep == recordingSeconds' = recordingSeconds + 1

\* The recorder of some session is recording from tracks that are live.
RecordingInProgress ==
    \E session \in 1..Len(recSessions) :
        /\ recSessions[session].recorder = "recording"
        /\ recSessions[session].tracks = "live"

AutoStopStopsEveryRecorder ==
    autoStopEnabled /\ SomeRecorderRecording => recordingSeconds < autoStopSeconds

OneRunAtATime == runsInProgress <= 1

\* C29: isRecording is true only while a recorder is recording: whenever the
\* recorder has stopped (Stop button, auto-stop, recorder error, track ended)
\* isRecording eventually becomes false.
StoppedRecorderClearsIsRecording ==
    [](isRecording /\ ~RecorderRecording => <>~isRecording)

\* The stop event of the session is delivered in the step.
StopDelivered(session) ==
    /\ session <= Len(recSessions)
    /\ recSessions[session].stopEvent = "queued"
    /\ recSessions'[session].stopEvent = "delivered"

\* C30: the stop handling of a session releases only that session's stream
\* and recorder: it does not stop the tracks of another session's recording
\* stream and does not clear a recorder reference or stream reference that
\* holds another session.
StopReleasesOwnSession ==
    [][\A session \in 1..MaxSessions : StopDelivered(session) =>
          \A other \in 1..Len(recSessions) : other # session =>
              /\ recSessions'[other].tracks = recSessions[other].tracks
              /\ mediaRecorderRef = other => mediaRecorderRef' = other
              /\ recordingStreamRef = other => recordingStreamRef' = other]_vars

====
